---- MODULE Spec2Model ----
(***************************************************************************)
(* Track-continuity engine of the pose pipeline: engine/tracking.py        *)
(* (TrackManager) driven by the frame loop of engine/pose.py               *)
(* (extract_pose), with the detection normalizer of engine/pose.py.        *)
(*                                                                         *)
(* Python floats are modelled as exact rationals <<n, d>> (d > 0, lowest   *)
(* terms).  None is the empty tuple; an optional dict is <<>> or <<dict>>. *)
(* A landmark list is a sequence, so None and [] coincide, as they do      *)
(* under the truthiness tests the code applies to them.                    *)
(***************************************************************************)
EXTENDS Integers, Sequences, FiniteSets, TLC

\* ------------------------------------------------------------------ bounds

\* Frames read from the video before the loop ends.
MaxFrames == 3

\* Most poses the detector returns for one frame (NUM_POSES in the program).
MaxDets == 2

\* Frames of the long video, and the poses per frame its detector returns.
LongFrames == 6

LongDets == 1

\* Frames of the video whose landmarks lack scalars.
SparseFrames == 3

\* Landmarks of a list handed to the normalizer on its own, and the height
\* in pixels of the smaller of the two frame sizes it is run on.
MaxLandmarks == 2

SmallFrameHeight == 480

\* Frames of the video during which override_detection is also called
\* directly, and direct calls made.
OverrideFrames == 2

MaxCalls == 2

\* Significand bits of the binary floating-point numbers the smoother is
\* run on: scaled down from the 53 of a Python float.
MantissaBits == 9

\* Frames of the constant stream fed to the smoother.
MaxStreamFrames == 4

\* TrackManager(primary_drop_frames=...): scaled down from 45.
PrimaryDropFrames == 1

\* TrackManager(max_hold_frames=...): scaled down from 45.
MaxHoldFrames == 2

\* TrackManager(height_window=...): scaled down from 30.
HeightWindow == 2

\* Size of the video frames in pixels (cap.get(CAP_PROP_FRAME_WIDTH / _HEIGHT)).
FrameWidth == 1920

FrameHeight == 1080

\* ------------------------------------------------------- float arithmetic

None == <<>>

Some(v) == <<v>>

RECURSIVE GCD(_, _)
GCD(a, b) == IF b = 0 THEN a ELSE GCD(b, a % b)

Rat(n, d) ==
    LET g == GCD(IF n < 0 THEN -n ELSE n, d)
    IN  IF n = 0 THEN <<0, 1>> ELSE <<n \div g, d \div g>>

\* Sums and comparisons go through the least common denominator, which
\* keeps the intermediate integers small.
RAdd(a, b) ==
    LET g == GCD(a[2], b[2])
    IN  Rat(a[1] * (b[2] \div g) + b[1] * (a[2] \div g), (a[2] \div g) * b[2])

RSub(a, b) ==
    LET g == GCD(a[2], b[2])
    IN  Rat(a[1] * (b[2] \div g) - b[1] * (a[2] \div g), (a[2] \div g) * b[2])

RMul(a, b) == Rat(a[1] * b[1], a[2] * b[2])

\* a / b for b > 0.
RDiv(a, b) == Rat(a[1] * b[2], a[2] * b[1])

RLe(a, b) ==
    LET g == GCD(a[2], b[2])
    IN  a[1] * (b[2] \div g) <= b[1] * (a[2] \div g)

RLt(a, b) ==
    LET g == GCD(a[2], b[2])
    IN  a[1] * (b[2] \div g) < b[1] * (a[2] \div g)

RAbs(a) == IF a[1] < 0 THEN <<-a[1], a[2]>> ELSE a

RMax(a, b) == IF RLt(a, b) THEN b ELSE a

RMin(a, b) == IF RLt(b, a) THEN b ELSE a

\* floor(sqrt(n)) by Newton's iteration.
RECURSIVE NewtonSqrt(_, _)
NewtonSqrt(n, x) ==
    LET y == (x + (n \div x)) \div 2
    IN  IF y >= x THEN x ELSE NewtonSqrt(n, y)

ISqrt(n) == IF n = 0 THEN 0 ELSE NewtonSqrt(n, n)

\* math.hypot.  The poses of the model are placed so that every distance
\* between two centers is rational, which makes the square root exact.
Hypot(dx, dy) ==
    LET s == RAdd(RMul(dx, dx), RMul(dy, dy))
    IN  <<ISqrt(s[1]), ISqrt(s[2])>>

RECURSIVE RPow(_, _)
RPow(a, k) == IF k = 0 THEN <<1, 1>> ELSE RMul(a, RPow(a, k - 1))

RECURSIVE RSum(_)
RSum(s) == IF s = <<>> THEN <<0, 1>> ELSE RAdd(Head(s), RSum(Tail(s)))

SeqMin(s) == s[CHOOSE i \in 1..Len(s) : \A j \in 1..Len(s) : RLe(s[i], s[j])]

SeqMax(s) == s[CHOOSE i \in 1..Len(s) : \A j \in 1..Len(s) : RLe(s[j], s[i])]

\* ------------------------------------------------ rounded float arithmetic

RECURSIVE Pow2(_)
Pow2(k) == IF k = 0 THEN 1 ELSE 2 * Pow2(k - 1)

\* a / d rounded to the nearest integer, ties to the even one.
RoundHalfEven(a, d) ==
    LET q == a \div d
        r == a % d
    IN  IF 2 * r > d \/ (2 * r = d /\ q % 2 = 1) THEN q + 1 ELSE q

\* (a / d) * m for a, d > 0, with a / d rounded to MantissaBits significant
\* bits after it has been scaled into [2^(MantissaBits-1), 2^MantissaBits).
RECURSIVE FRoundPos(_, _, _)
FRoundPos(a, d, m) ==
    IF a \div d >= Pow2(MantissaBits) THEN FRoundPos(a, 2 * d, RMul(m, <<2, 1>>))
    ELSE IF a \div d < Pow2(MantissaBits - 1)
         THEN IF d % 2 = 0 THEN FRoundPos(a, d \div 2, RMul(m, <<1, 2>>))
              ELSE FRoundPos(2 * a, d, RMul(m, <<1, 2>>))
    ELSE RMul(<<RoundHalfEven(a, d), 1>>, m)

\* The float nearest to the real r (round to nearest, ties to even; no
\* overflow or underflow).
FRound(r) ==
    IF r[1] = 0 THEN <<0, 1>>
    ELSE IF r[1] < 0 THEN LET f == FRoundPos(-r[1], r[2], <<1, 1>>) IN <<-f[1], f[2]>>
    ELSE FRoundPos(r[1], r[2], <<1, 1>>)

\* The float operators *, + and -.
FMul(a, b) == FRound(RMul(a, b))

FAdd(a, b) == FRound(RAdd(a, b))

FSub(a, b) == FRound(RSub(a, b))

\* ------------------------------------------------------ program constants

EMA_ALPHA == <<2, 5>>

CONF_DECAY == <<19, 20>>

MIN_BBOX_HEIGHT_PX == <<120, 1>>

MIN_BBOX_HEIGHT_RATIO == <<3, 25>>

CROP_TRIGGER_PX == <<180, 1>>

CROP_TRIGGER_RATIO == <<9, 50>>

ASSIGNMENT_THRESHOLD == <<5, 2>>

\* EMA_ALPHA as the float the literal 0.4 denotes.
FLOAT_ALPHA == FRound(EMA_ALPHA)

\* extract_pose(primary_tracks: int = 2)
PrimaryTrackCount == 2

\* ------------------------------------------------------------- normalizer

Lm(name, x, y, z, conf) == [name |-> name, x |-> x, y |-> y, z |-> z, conf |-> conf]

\* [f(e) for e in s if e is not None]
NotNone(s) == SelectSeq(s, LAMBDA v : v # None)

Xs(landmarks) == NotNone([i \in 1..Len(landmarks) |-> landmarks[i].x])

Ys(landmarks) == NotNone([i \in 1..Len(landmarks) |-> landmarks[i].y])

ZeroBbox ==
    [x_min |-> <<0, 1>>, y_min |-> <<0, 1>>, x_max |-> <<0, 1>>, y_max |-> <<0, 1>>,
     height |-> <<0, 1>>, height_px |-> <<0, 1>>, height_ratio |-> <<0, 1>>,
     above_threshold |-> FALSE]

\* Faulty variant of _bbox_from_landmarks: both size thresholds must be met.
bbox_from_landmarks_both_thresholds(landmarks, height) ==
    LET xs == Xs(landmarks)
        ys == Ys(landmarks)
    IN  IF xs = <<>> \/ ys = <<>> THEN ZeroBbox
        ELSE LET x_min == RMax(SeqMin(xs), <<0, 1>>)
                 y_min == RMax(SeqMin(ys), <<0, 1>>)
                 x_max == RMin(SeqMax(xs), <<1, 1>>)
                 y_max == RMin(SeqMax(ys), <<1, 1>>)
                 height_ratio == RMax(RSub(y_max, y_min), <<0, 1>>)
                 height_px == RMul(height_ratio, <<height, 1>>)
             IN  [x_min |-> x_min, y_min |-> y_min, x_max |-> x_max, y_max |-> y_max,
                  height |-> height_ratio, height_px |-> height_px,
                  height_ratio |-> height_ratio,
                  above_threshold |-> (RLe(MIN_BBOX_HEIGHT_PX, height_px)
                                       /\ RLe(MIN_BBOX_HEIGHT_RATIO, height_ratio))]

bbox_from_landmarks(landmarks, height) ==
    LET xs == Xs(landmarks)
        ys == Ys(landmarks)
    IN  IF xs = <<>> \/ ys = <<>> THEN ZeroBbox
        ELSE LET x_min == RMax(SeqMin(xs), <<0, 1>>)
                 y_min == RMax(SeqMin(ys), <<0, 1>>)
                 x_max == RMin(SeqMax(xs), <<1, 1>>)
                 y_max == RMin(SeqMax(ys), <<1, 1>>)
                 height_ratio == RMax(RSub(y_max, y_min), <<0, 1>>)
                 height_px == RMul(height_ratio, <<height, 1>>)
             IN  [x_min |-> x_min, y_min |-> y_min, x_max |-> x_max, y_max |-> y_max,
                  height |-> height_ratio, height_px |-> height_px,
                  height_ratio |-> height_ratio,
                  above_threshold |-> (RLe(MIN_BBOX_HEIGHT_PX, height_px)
                                       \/ RLe(MIN_BBOX_HEIGHT_RATIO, height_ratio))]

\* One detection dict of a frame of the given height; source is "video"
\* for the dicts of _detections_from_result (which carry no "source" key)
\* and "crop" for the dict of _run_crop_pose.
DetectionAt(landmarks, source, height) ==
    LET bbox == bbox_from_landmarks(landmarks, height)
    IN  [landmarks |-> landmarks,
         bbox |-> bbox,
         center |-> <<RDiv(RAdd(bbox.x_min, bbox.x_max), <<2, 1>>),
                      RDiv(RAdd(bbox.y_min, bbox.y_max), <<2, 1>>)>>,
         scale |-> bbox.height,
         too_small |-> ~bbox.above_threshold,
         above_threshold |-> bbox.above_threshold,
         source |-> source]

Detection(landmarks, source) == DetectionAt(landmarks, source, FrameHeight)

detections_from_result(poses) == [i \in 1..Len(poses) |-> Detection(poses[i], "video")]

\* --------------------------------------------------------- detector output

\* n hundredths
Pct(n) == Rat(n, 100)

\* A standing subject: NOSE at the top left of the box, LEFT_HEEL at the
\* bottom right.  The centers (0.12, 0.16), (0.30, 0.16), (0.30, 0.40) and
\* the origin lie at rational distances from one another.
Pose(left, right, top, bottom, conf) ==
    <<Lm("NOSE", Pct(left), Pct(top), Pct(-10), conf),
      Lm("LEFT_HEEL", Pct(right), Pct(bottom), Pct(10), conf)>>

\* center (0.12, 0.16), height 0.2
PoseA == Pose(8, 16, 6, 26, Pct(90))

\* the same box, visibility not reported
PoseA2 == Pose(8, 16, 6, 26, None)

\* center (0.30, 0.16), height 0.1: below both size thresholds
PoseB == Pose(26, 34, 11, 21, Pct(50))

\* center (0.30, 0.40), height 0.4
PoseC == Pose(26, 34, 20, 60, Pct(80))

\* What detect_for_video can return for one subject.
PoseSet == {PoseA, PoseA2, PoseB, PoseC}

\* A crop re-query result mapped to the full frame: center (0.30, 0.16), height 0.2.
CropPose == Pose(25, 35, 6, 26, Pct(95))

\* What the crop re-query of _run_crop_pose can yield once a crop was cut:
\* None (no pose found), or the dict built from result.pose_landmarks[0],
\* whose landmark list may be empty.
CropResults == {None, Some(Detection(CropPose, "crop")), Some(Detection(<<>>, "crop"))}

\* PoseA without depth: no landmark has a z, the first has no visibility.
PoseNoZ ==
    <<Lm("NOSE", Pct(8), Pct(6), None, None),
      Lm("LEFT_HEEL", Pct(16), Pct(26), None, Pct(90))>>

\* Landmark sets with optional scalars missing, as a caller of the manager
\* may pass them.
PoseSetSparse == {PoseA2, PoseNoZ, PoseB}

\* Every list of at most MaxDets poses.
RECURSIVE SeqsUpTo(_, _)
SeqsUpTo(S, n) ==
    IF n = 0 THEN {<<>>}
    ELSE LET shorter == SeqsUpTo(S, n - 1)
         IN  shorter \cup {Append(s, e) : s \in {t \in shorter : Len(t) = n - 1}, e \in S}

\* center (0.30, 0.16), height 0.2
PoseD == Pose(26, 34, 6, 26, Pct(70))

\* center (0.30, 0.40), height 0.6
PoseE == Pose(26, 34, 10, 70, Pct(60))

\* the box of PoseA, every landmark reported with visibility 0.0
PoseA0 == Pose(8, 16, 6, 26, Pct(0))

\* A scene with a tall subject standing apart from the others.
PoseSetWide == {PoseA, PoseB, PoseD, PoseE}

\* A scene with a single subject.
PoseSetLong == {PoseA, PoseA0, PoseB}

\* ------------------------------------------------------------------ state

VARIABLES
    tracks,             \* TrackManager.tracks: track id -> TrackState, ids in insertion order
    primary_track_ids,  \* TrackManager.primary_track_ids
    next_id,            \* TrackManager._next_id
    frame_index,        \* extract_pose: frame_index
    pc,                 \* extract_pose: position in the frame loop
    refine_pos,         \* _refine_primary_tracks: position in tracker.primary_track_ids
    frame_tracks,       \* extract_pose: the last list build_primary_frame returned
    call,               \* locals of the last update_tracks call
    prev_call,          \* locals of the update_tracks call before that one
    video,              \* the input: what the detector can see in it, and its length
    fn_args,            \* arguments of a module-level function called on its own
    fn_result           \* what that call returned

\* What detect_for_video can return for one frame of the video.
FrameResults == SeqsUpTo(video.poses, video.dets)

vars == <<tracks, primary_track_ids, next_id, frame_index, pc, refine_pos,
          frame_tracks, call, prev_call, video, fn_args, fn_result>>

\* ------------------------------------------------------------- TrackState

NewTrackState(track_id) ==
    [track_id |-> track_id,
     last_center |-> None,
     last_bbox |-> None,
     velocity |-> <<<<0, 1>>, <<0, 1>>>>,
     last_landmarks |-> None,
     last_smoothed |-> None,
     current_detection |-> None,
     last_seen_frame |-> -1,
     missed_frames |-> 0,
     hold_frames |-> 0,
     current_dropout |-> 0,
     longest_dropout |-> 0,
     detected_frames |-> 0,
     predicted_frames |-> 0,
     height_history |-> <<>>,
     height_history_above |-> <<>>]

\* Faulty variant of the window: a list that is never trimmed.
DequeAppendUnbounded(q, v, maxlen) == Append(q, v)

\* deque(maxlen=n).append(v)
DequeAppend(q, v, maxlen) ==
    IF maxlen = 0 THEN <<>>
    ELSE IF Len(q) >= maxlen THEN Append(SubSeq(q, Len(q) - maxlen + 2, Len(q)), v)
    ELSE Append(q, v)

average_height_above(track) ==
    IF track.height_history_above = <<>> THEN <<0, 1>>
    ELSE RDiv(RSum(track.height_history_above), <<Len(track.height_history_above), 1>>)

has_above_threshold(track) == Len(track.height_history_above) > 0

\* ---------------------------------------------------------------- helpers

velocity(previous_center, current_center) ==
    IF previous_center = None THEN <<<<0, 1>>, <<0, 1>>>>
    ELSE <<RSub(current_center[1], previous_center[1]),
           RSub(current_center[2], previous_center[2])>>

\* Faulty variant of _assignment_cost: the size term is left out.
assignment_cost_no_size(track, detection) ==
    LET track_height == IF track.last_bbox = None THEN <<0, 1>>
                        ELSE track.last_bbox[1].height
        dx == RSub(detection.center[1], track.last_center[1])
        dy == RSub(detection.center[2], track.last_center[2])
        norm == IF RLt(<<0, 1>>, track_height) THEN track_height ELSE <<1, 1>>
    IN  RDiv(Hypot(dx, dy), norm)

\* _assignment_cost(track, detection); track.last_center is set when called.
assignment_cost(track, detection) ==
    LET track_height == IF track.last_bbox = None THEN <<0, 1>>
                        ELSE track.last_bbox[1].height
        det_height == detection.bbox.height
        dx == RSub(detection.center[1], track.last_center[1])
        dy == RSub(detection.center[2], track.last_center[2])
        norm == IF RLt(<<0, 1>>, track_height) THEN track_height ELSE <<1, 1>>
        dist_cost == RDiv(Hypot(dx, dy), norm)
        size_cost == RDiv(RAbs(RSub(det_height, track_height)), norm)
    IN  RAdd(dist_cost, size_cost)

\* Faulty variant of _apply_detection: the missed-frame counter is left as
\* it was.
apply_detection_keeping_missed(track, detection, fidx) ==
    [track EXCEPT
        !.current_detection = Some(detection),
        !.last_seen_frame = fidx,
        !.velocity = velocity(track.last_center, detection.center),
        !.last_center = detection.center,
        !.last_bbox = Some(detection.bbox),
        !.height_history = DequeAppend(@, detection.bbox.height, HeightWindow),
        !.height_history_above =
            IF detection.above_threshold
            THEN DequeAppend(@, detection.bbox.height, HeightWindow)
            ELSE @]

\* TrackManager._apply_detection on one record of the table.
apply_detection(track, detection, fidx) ==
    [track EXCEPT
        !.current_detection = Some(detection),
        !.last_seen_frame = fidx,
        !.missed_frames = 0,
        !.velocity = velocity(track.last_center, detection.center),
        !.last_center = detection.center,
        !.last_bbox = Some(detection.bbox),
        !.height_history = DequeAppend(@, detection.bbox.height, HeightWindow),
        !.height_history_above =
            IF detection.above_threshold
            THEN DequeAppend(@, detection.bbox.height, HeightWindow)
            ELSE @]

\* ---------------------------------------------------------- update_tracks

\* The ids of the table in dict order: tracks are inserted with ascending
\* ids and never deleted.
TrackIds(trs) ==
    [i \in 1..Cardinality(DOMAIN trs) |->
        CHOOSE t \in DOMAIN trs : Cardinality({u \in DOMAIN trs : u < t}) = i - 1]

\* pair_candidates before the sort, in enumeration order.  Detection
\* indexes are 1-based here (det_idx + 1).
PairCandidates(trs, detections) ==
    LET track_ids == TrackIds(trs)
        m == Len(detections)
        all == [k \in 1..(Len(track_ids) * m) |->
                   LET track_id == track_ids[((k - 1) \div m) + 1]
                       det_idx == ((k - 1) % m) + 1
                       track == trs[track_id]
                   IN  IF track.last_center = None \/ track.last_bbox = None
                       THEN <<>>
                       ELSE <<assignment_cost(track, detections[det_idx]), track_id, det_idx>>]
    IN  SelectSeq(all, LAMBDA c : c # <<>> /\ RLe(c[1], ASSIGNMENT_THRESHOLD))

\* Faulty variant of the sort: the candidates stay in enumeration order.
SortByCostUnsorted(c) == c

\* Faulty variant of the sort: descending by cost (reverse=True).
SortByCostDescending(c) ==
    LET rank(i) == Cardinality({j \in 1..Len(c) :
                        RLt(c[i][1], c[j][1]) \/ (~RLt(c[j][1], c[i][1]) /\ j < i)})
    IN  [k \in 1..Len(c) |-> c[CHOOSE i \in 1..Len(c) : rank(i) = k - 1]]

\* list.sort(key=lambda item: item[0]): stable, ascending by cost.
SortByCost(c) ==
    LET rank(i) == Cardinality({j \in 1..Len(c) :
                        RLt(c[j][1], c[i][1]) \/ (~RLt(c[i][1], c[j][1]) /\ j < i)})
    IN  [k \in 1..Len(c) |-> c[CHOOSE i \in 1..Len(c) : rank(i) = k - 1]]

\* Faulty variant of the accept loop: only the track is tested for being
\* claimed, not the detection.
RECURSIVE AcceptLoopTrackOnly(_, _, _, _, _)
AcceptLoopTrackOnly(sorted, i, detections, fidx, st) ==
    IF i > Len(sorted) THEN st
    ELSE LET track_id == sorted[i][2]
             det_idx == sorted[i][3]
         IN  IF track_id \in st.used_tracks
             THEN AcceptLoopTrackOnly(sorted, i + 1, detections, fidx, st)
             ELSE AcceptLoopTrackOnly(sorted, i + 1, detections, fidx,
                     [st EXCEPT
                        !.tracks[track_id] = apply_detection(@, detections[det_idx], fidx),
                        !.used_tracks = @ \cup {track_id},
                        !.used_detections = @ \cup {det_idx},
                        !.accepted = Append(@, <<track_id, det_idx>>)])

\* The loop over the sorted candidates, from position i on.
RECURSIVE AcceptLoop(_, _, _, _, _)
AcceptLoop(sorted, i, detections, fidx, st) ==
    IF i > Len(sorted) THEN st
    ELSE LET track_id == sorted[i][2]
             det_idx == sorted[i][3]
         IN  IF track_id \in st.used_tracks \/ det_idx \in st.used_detections
             THEN AcceptLoop(sorted, i + 1, detections, fidx, st)
             ELSE AcceptLoop(sorted, i + 1, detections, fidx,
                     [st EXCEPT
                        !.tracks[track_id] = apply_detection(@, detections[det_idx], fidx),
                        !.used_tracks = @ \cup {track_id},
                        !.used_detections = @ \cup {det_idx},
                        !.accepted = Append(@, <<track_id, det_idx>>)])

\* Faulty variant of _create_track: _next_id is not advanced, so the id is
\* handed out again.
create_track_reusing_id(st, detection, fidx) ==
    LET track_id == st.next_id
    IN  [st EXCEPT
            !.tracks = (track_id :> apply_detection(NewTrackState(track_id), detection, fidx))
                       @@ @]

\* TrackManager._create_track: the table and the counter after the call.
create_track(st, detection, fidx) ==
    LET track_id == st.next_id
    IN  [st EXCEPT
            !.next_id = @ + 1,
            !.tracks = @ @@ (track_id :> apply_detection(NewTrackState(track_id), detection, fidx))]

\* Faulty variant of the create loop: the loop stops after the first track
\* it creates.
RECURSIVE CreateLoopOnce(_, _, _, _)
CreateLoopOnce(detections, det_idx, fidx, st) ==
    IF det_idx > Len(detections) THEN st
    ELSE IF det_idx \in st.used_detections
         THEN CreateLoopOnce(detections, det_idx + 1, fidx, st)
         ELSE LET track_id == st.next_id
                  made == create_track(st, detections[det_idx], fidx)
              IN  [made EXCEPT
                     !.used_tracks = @ \cup {track_id},
                     !.used_detections = @ \cup {det_idx},
                     !.created = Append(@, <<track_id, det_idx>>)]

\* The loop over the detections that creates a track for each unmatched one.
RECURSIVE CreateLoop(_, _, _, _)
CreateLoop(detections, det_idx, fidx, st) ==
    IF det_idx > Len(detections) THEN st
    ELSE IF det_idx \in st.used_detections
         THEN CreateLoop(detections, det_idx + 1, fidx, st)
         ELSE LET track_id == st.next_id
                  made == create_track(st, detections[det_idx], fidx)
              IN  CreateLoop(detections, det_idx + 1, fidx,
                     [made EXCEPT
                        !.used_tracks = @ \cup {track_id},
                        !.used_detections = @ \cup {det_idx},
                        !.created = Append(@, <<track_id, det_idx>>)])

\* Faulty variant of the miss loop: the counter is advanced, the detection
\* of the earlier frame is kept.
MarkMissedKeepingDetection(trs, used_tracks) ==
    [track_id \in DOMAIN trs |->
        IF track_id \in used_tracks THEN trs[track_id]
        ELSE [trs[track_id] EXCEPT !.missed_frames = @ + 1]]

\* Faulty variant of the miss loop: the dropout streak of every unmatched
\* track is advanced here.
MarkMissedCountingDropout(trs, used_tracks) ==
    [track_id \in DOMAIN trs |->
        IF track_id \in used_tracks THEN trs[track_id]
        ELSE [trs[track_id] EXCEPT !.current_detection = None, !.missed_frames = @ + 1,
                                   !.current_dropout = @ + 1,
                                   !.longest_dropout =
                                       IF @ < trs[track_id].current_dropout + 1
                                       THEN trs[track_id].current_dropout + 1 ELSE @]]

\* Faulty variant of the miss loop: the detection is cleared, the counter
\* is not advanced.
MarkMissedNoCount(trs, used_tracks) ==
    [track_id \in DOMAIN trs |->
        IF track_id \in used_tracks THEN trs[track_id]
        ELSE [trs[track_id] EXCEPT !.current_detection = None]]

\* Faulty variant of the miss loop: a track that has been missing for more
\* than primary_drop_frames frames is deleted from the table.
MarkMissedPruning(trs, used_tracks) ==
    [track_id \in {t \in DOMAIN trs :
                      t \in used_tracks \/ trs[t].missed_frames + 1 <= PrimaryDropFrames} |->
        IF track_id \in used_tracks THEN trs[track_id]
        ELSE [trs[track_id] EXCEPT !.current_detection = None, !.missed_frames = @ + 1]]

\* The loop that marks the tracks no detection was applied to.
MarkMissed(trs, used_tracks) ==
    [track_id \in DOMAIN trs |->
        IF track_id \in used_tracks THEN trs[track_id]
        ELSE [trs[track_id] EXCEPT !.current_detection = None, !.missed_frames = @ + 1]]

\* Faulty variant of _select_primary_tracks: every track is a candidate,
\* whether or not it has an above-threshold sample.
select_primary_tracks_unfiltered(trs) ==
    LET candidates == TrackIds(trs)
        avg(i) == average_height_above(trs[candidates[i]])
        rank(i) == Cardinality({j \in 1..Len(candidates) :
                        RLt(avg(i), avg(j)) \/ (~RLt(avg(j), avg(i)) /\ j < i)})
        sorted == [k \in 1..Len(candidates) |->
                      candidates[CHOOSE i \in 1..Len(candidates) : rank(i) = k - 1]]
    IN  SubSeq(sorted, 1, IF Len(sorted) < PrimaryTrackCount THEN Len(sorted)
                          ELSE PrimaryTrackCount)

\* Faulty variant of _select_primary_tracks: the candidates are sorted
\* ascending by average height (reverse=True left out).
select_primary_tracks_ascending(trs) ==
    LET candidates == SelectSeq(TrackIds(trs), LAMBDA t : has_above_threshold(trs[t]))
        avg(i) == average_height_above(trs[candidates[i]])
        rank(i) == Cardinality({j \in 1..Len(candidates) :
                        RLt(avg(j), avg(i)) \/ (~RLt(avg(i), avg(j)) /\ j < i)})
        sorted == [k \in 1..Len(candidates) |->
                      candidates[CHOOSE i \in 1..Len(candidates) : rank(i) = k - 1]]
    IN  SubSeq(sorted, 1, IF Len(sorted) < PrimaryTrackCount THEN Len(sorted)
                          ELSE PrimaryTrackCount)

\* candidates.sort(key=average_height_above, reverse=True)[:n]: stable,
\* descending, over the tracks with an above-threshold sample in dict order.
select_primary_tracks(trs) ==
    LET candidates == SelectSeq(TrackIds(trs), LAMBDA t : has_above_threshold(trs[t]))
        avg(i) == average_height_above(trs[candidates[i]])
        rank(i) == Cardinality({j \in 1..Len(candidates) :
                        RLt(avg(i), avg(j)) \/ (~RLt(avg(j), avg(i)) /\ j < i)})
        sorted == [k \in 1..Len(candidates) |->
                      candidates[CHOOSE i \in 1..Len(candidates) : rank(i) = k - 1]]
    IN  SubSeq(sorted, 1, IF Len(sorted) < PrimaryTrackCount THEN Len(sorted)
                          ELSE PrimaryTrackCount)

\* Faulty variant of _refresh_primary_tracks: when too few ids are kept,
\* the new ranking is appended to them instead of replacing them.
refresh_primary_tracks_appending(trs, primary) ==
    IF primary = <<>> THEN select_primary_tracks(trs)
    ELSE LET refreshed == SelectSeq(primary, LAMBDA t :
                              t \in DOMAIN trs /\ ~(trs[t].missed_frames > PrimaryDropFrames))
         IN  IF Len(refreshed) < PrimaryTrackCount
             THEN refreshed \o select_primary_tracks(trs)
             ELSE refreshed

\* Faulty variant of _refresh_primary_tracks: no hysteresis, the set is
\* ranked afresh on every frame.
refresh_primary_tracks_always_ranking(trs, primary) == select_primary_tracks(trs)

\* Faulty variant of _refresh_primary_tracks: a track is dropped as soon as
\* its miss streak reaches primary_drop_frames (>= for >).
refresh_primary_tracks_dropping_early(trs, primary) ==
    IF primary = <<>> THEN select_primary_tracks(trs)
    ELSE LET refreshed == SelectSeq(primary, LAMBDA t :
                              t \in DOMAIN trs /\ ~(trs[t].missed_frames >= PrimaryDropFrames))
         IN  IF Len(refreshed) < PrimaryTrackCount THEN select_primary_tracks(trs)
             ELSE refreshed

\* TrackManager._refresh_primary_tracks: the new primary list.
refresh_primary_tracks(trs, primary) ==
    IF primary = <<>> THEN select_primary_tracks(trs)
    ELSE LET refreshed == SelectSeq(primary, LAMBDA t :
                              t \in DOMAIN trs /\ ~(trs[t].missed_frames > PrimaryDropFrames))
         IN  IF Len(refreshed) < PrimaryTrackCount THEN select_primary_tracks(trs)
             ELSE refreshed

\* Faulty variant of update_tracks: the table is handed on before the
\* unmatched tracks are marked.
update_tracks_result_before_marking(trs, nid, detections, fidx) ==
    LET sorted == SortByCost(PairCandidates(trs, detections))
        st0 == [tracks |-> trs, next_id |-> nid, used_tracks |-> {},
                used_detections |-> {}, accepted |-> <<>>, created |-> <<>>]
        st1 == AcceptLoop(sorted, 1, detections, fidx, st0)
    IN  CreateLoop(detections, 1, fidx, st1)

\* The state of the manager after update_tracks(detections, fidx), with
\* the locals of the call.
update_tracks_result(trs, nid, detections, fidx) ==
    LET sorted == SortByCost(PairCandidates(trs, detections))
        st0 == [tracks |-> trs, next_id |-> nid, used_tracks |-> {},
                used_detections |-> {}, accepted |-> <<>>, created |-> <<>>]
        st1 == AcceptLoop(sorted, 1, detections, fidx, st0)
        st2 == CreateLoop(detections, 1, fidx, st1)
    IN  [st2 EXCEPT !.tracks = MarkMissed(@, st2.used_tracks)]

update_tracks ==
    /\ pc = "update"
    /\ frame_index < video.frames
    /\ \E poses \in FrameResults :
         LET detections == detections_from_result(poses)
             r == update_tracks_result(tracks, next_id, detections, frame_index)
             primary == refresh_primary_tracks(r.tracks, primary_track_ids)
         IN  /\ tracks' = r.tracks
             /\ next_id' = r.next_id
             /\ primary_track_ids' = primary
             /\ call' = [detections |-> detections,
                         pair_candidates |-> SortByCost(PairCandidates(tracks, detections)),
                         accepted |-> r.accepted,
                         created |-> r.created,
                         before |-> tracks,
                         primary_before |-> primary_track_ids,
                         frame_index |-> frame_index,
                         overridden |-> {}]
             /\ prev_call' = call
             /\ pc' = IF primary = <<>> THEN "build" ELSE "refine"
    /\ refine_pos' = 1
    /\ UNCHANGED <<frame_index, frame_tracks, video, fn_args, fn_result>>

\* ------------------------------------------------------ override_detection

\* Faulty variant of override_detection: an unknown id gets a new record.
override_detection_creating(trs, track_id, detection, fidx) ==
    IF track_id \notin DOMAIN trs
    THEN [t \in DOMAIN trs \cup {track_id} |->
            IF t = track_id THEN apply_detection(NewTrackState(t), detection, fidx)
            ELSE trs[t]]
    ELSE [trs EXCEPT ![track_id] = apply_detection(@, detection, fidx)]

override_detection(trs, track_id, detection, fidx) ==
    IF track_id \notin DOMAIN trs THEN trs
    ELSE [trs EXCEPT ![track_id] = apply_detection(@, detection, fidx)]

should_refine(bbox) ==
    RLt(bbox.height_px, CROP_TRIGGER_PX) \/ RLt(bbox.height_ratio, CROP_TRIGGER_RATIO)

\* int(v) for v >= 0
Trunc(v) == v[1] \div v[2]

IMax(a, b) == IF a < b THEN b ELSE a

IMin(a, b) == IF b < a THEN b ELSE a

\* _run_crop_pose up to the detector call: TRUE iff a non-empty crop is cut
\* around bbox (CROP_MARGIN = 0.25 of the box on each side).
CropIsCut(bbox) ==
    LET x_min == Trunc(RMul(bbox.x_min, <<FrameWidth, 1>>))
        x_max == Trunc(RMul(bbox.x_max, <<FrameWidth, 1>>))
        y_min == Trunc(RMul(bbox.y_min, <<FrameHeight, 1>>))
        y_max == Trunc(RMul(bbox.y_max, <<FrameHeight, 1>>))
        margin_x == IMax(x_max - x_min, 1) \div 4
        margin_y == IMax(y_max - y_min, 1) \div 4
        crop_x1 == IMax(x_min - margin_x, 0)
        crop_y1 == IMax(y_min - margin_y, 0)
        crop_x2 == IMin(x_max + margin_x, FrameWidth)
        crop_y2 == IMin(y_max + margin_y, FrameHeight)
    IN  ~(crop_x2 <= crop_x1 \/ crop_y2 <= crop_y1)

\* The box _refine_primary_tracks looks at for one track: None if it has none.
RefineBbox(track) ==
    IF track.current_detection # None THEN Some(track.current_detection[1].bbox)
    ELSE track.last_bbox

\* One iteration of the loop of _refine_primary_tracks.
refine_primary_tracks_step ==
    /\ pc = "refine"
    /\ LET track_id == primary_track_ids[refine_pos]
           bbox == IF track_id \in DOMAIN tracks THEN RefineBbox(tracks[track_id]) ELSE None
           asked == bbox # None /\ should_refine(bbox[1]) /\ CropIsCut(bbox[1])
       IN  \E refined \in (IF asked THEN CropResults ELSE {None}) :
             /\ tracks' = IF refined = None THEN tracks
                          ELSE override_detection(tracks, track_id, refined[1], frame_index)
             /\ call' = IF refined = None THEN call
                        ELSE [call EXCEPT !.overridden = @ \cup {track_id}]
    /\ pc' = IF refine_pos >= Len(primary_track_ids) THEN "build" ELSE "refine"
    /\ refine_pos' = refine_pos + 1
    /\ UNCHANGED <<primary_track_ids, next_id, frame_index, frame_tracks, prev_call, video, fn_args, fn_result>>

\* ------------------------------------------------------- build_primary_frame

\* Faulty variant of _ema: a missing value counts as 0.
ema_missing_as_zero(current_value, previous_value, alpha) ==
    LET c == IF current_value = None THEN <<0, 1>> ELSE current_value
        q == IF previous_value = None THEN <<0, 1>> ELSE previous_value
    IN  RAdd(RMul(alpha, c), RMul(RSub(<<1, 1>>, alpha), q))

ema(current_value, previous_value, alpha) ==
    IF current_value = None THEN previous_value
    ELSE IF previous_value = None THEN current_value
    ELSE RAdd(RMul(alpha, current_value), RMul(RSub(<<1, 1>>, alpha), previous_value))

\* previous_map.get(name): the last landmark of that name, or None.
PreviousOf(previous, name) ==
    LET hits == {i \in 1..Len(previous) : previous[i].name = name}
    IN  IF hits = {} THEN None
        ELSE Some(previous[CHOOSE i \in hits : \A j \in hits : j <= i])

smooth_landmarks(current, previous, alpha) ==
    IF previous = <<>> THEN current
    ELSE [i \in 1..Len(current) |->
            LET landmark == current[i]
                prev == PreviousOf(previous, landmark.name)
            IN  IF prev = None THEN landmark
                ELSE [name |-> landmark.name,
                      x |-> ema(landmark.x, prev[1].x, alpha),
                      y |-> ema(landmark.y, prev[1].y, alpha),
                      z |-> ema(landmark.z, prev[1].z, alpha),
                      conf |-> ema(landmark.conf, prev[1].conf, alpha)]]

\* Faulty variant of _ema in floats: both terms are weighted by alpha.
ema_float_same_weight(current_value, previous_value, alpha) ==
    IF current_value = None THEN previous_value
    ELSE IF previous_value = None THEN current_value
    ELSE FAdd(FMul(alpha, current_value), FMul(alpha, previous_value))

\* _ema with every operation rounded as a float operation is.
ema_float(current_value, previous_value, alpha) ==
    IF current_value = None THEN previous_value
    ELSE IF previous_value = None THEN current_value
    ELSE FAdd(FMul(alpha, current_value), FMul(FSub(<<1, 1>>, alpha), previous_value))

\* smooth_landmarks over rounded floats.
smooth_landmarks_float(current, previous, alpha) ==
    IF previous = <<>> THEN current
    ELSE [i \in 1..Len(current) |->
            LET landmark == current[i]
                prev == PreviousOf(previous, landmark.name)
            IN  IF prev = None THEN landmark
                ELSE [name |-> landmark.name,
                      x |-> ema_float(landmark.x, prev[1].x, alpha),
                      y |-> ema_float(landmark.y, prev[1].y, alpha),
                      z |-> ema_float(landmark.z, prev[1].z, alpha),
                      conf |-> ema_float(landmark.conf, prev[1].conf, alpha)]]

\* float(v): raises TypeError on None.
Float(v) == IF v = None THEN <<"TypeError">> ELSE v

\* Faulty variant of apply_conf_decay: the confidence is copied unscaled.
apply_conf_decay_unscaled(landmarks, decay_factor) ==
    [i \in 1..Len(landmarks) |->
        [name |-> landmarks[i].name,
         x |-> Float(landmarks[i].x),
         y |-> Float(landmarks[i].y),
         z |-> Float(landmarks[i].z),
         conf |-> landmarks[i].conf]]

apply_conf_decay(landmarks, decay_factor) ==
    [i \in 1..Len(landmarks) |->
        [name |-> landmarks[i].name,
         x |-> Float(landmarks[i].x),
         y |-> Float(landmarks[i].y),
         z |-> Float(landmarks[i].z),
         conf |-> IF landmarks[i].conf = None THEN None
                  ELSE RMul(landmarks[i].conf, decay_factor)]]

Output(track, fidx, ts, landmarks, is_predicted, too_small, bbox) ==
    [track_id |-> track.track_id, frame_index |-> fidx, timestamp_ms |-> ts,
     landmarks |-> landmarks, is_predicted |-> is_predicted, too_small |-> too_small,
     bbox |-> bbox]

\* Faulty variant of the Active branch: the hold-frame counter is not reset.
ActiveOutputKeepingHold(track, detection, fidx, ts) ==
    LET smoothed == smooth_landmarks(detection.landmarks, track.last_smoothed, EMA_ALPHA)
    IN  [track |-> [track EXCEPT !.last_smoothed = smoothed,
                                 !.last_landmarks = smoothed,
                                 !.current_dropout = 0,
                                 !.detected_frames = @ + 1],
         output |-> Output(track, fidx, ts, smoothed, FALSE, FALSE, Some(detection.bbox))]

\* _build_track_output, the branch of a detection above the size threshold.
ActiveOutput(track, detection, fidx, ts) ==
    LET smoothed == smooth_landmarks(detection.landmarks, track.last_smoothed, EMA_ALPHA)
    IN  [track |-> [track EXCEPT !.last_smoothed = smoothed,
                                 !.last_landmarks = smoothed,
                                 !.hold_frames = 0,
                                 !.current_dropout = 0,
                                 !.detected_frames = @ + 1],
         output |-> Output(track, fidx, ts, smoothed, FALSE, FALSE, Some(detection.bbox))]

\* Faulty variant of the TooSmall branch: the frame is counted as detected
\* and ends the dropout streak.
TooSmallOutputCountedDetected(track, detection, fidx, ts) ==
    [track |-> [track EXCEPT !.current_dropout = 0,
                             !.detected_frames = @ + 1,
                             !.hold_frames = 0],
     output |-> Output(track, fidx, ts, <<>>, FALSE, TRUE, Some(detection.bbox))]

\* _build_track_output, the branch of a detection flagged too_small.
TooSmallOutput(track, detection, fidx, ts) ==
    [track |-> [track EXCEPT !.current_dropout = @ + 1,
                             !.longest_dropout = IMax(@, track.current_dropout + 1),
                             !.hold_frames = 0],
     output |-> Output(track, fidx, ts, <<>>, FALSE, TRUE, Some(detection.bbox))]

\* Faulty variant of the last branch: the decayed landmarks of a held frame
\* are stored as the track's smoothed set, so that the next smoothing
\* blends with a decayed prediction.
MissingOutputSmoothingDecayed(track, fidx, ts) ==
    LET detection == track.current_detection
        held == track.last_landmarks # <<>> /\ track.hold_frames < MaxHoldFrames
        decayed == apply_conf_decay(track.last_landmarks,
                       RPow(CONF_DECAY, track.hold_frames + 1))
        dropped == [track EXCEPT !.current_dropout = @ + 1,
                                 !.longest_dropout = IMax(@, track.current_dropout + 1)]
    IN  [track |-> IF held
                   THEN [dropped EXCEPT !.hold_frames = @ + 1, !.predicted_frames = @ + 1,
                                        !.last_smoothed = decayed]
                   ELSE dropped,
         output |-> Output(track, fidx, ts,
                       IF held THEN decayed ELSE <<>>,
                       held,
                       detection # None /\ detection[1].too_small,
                       IF detection # None THEN Some(detection[1].bbox) ELSE None)]

\* Faulty variant of the last branch: the decayed landmarks are stored as
\* the track's last landmarks, so that the decay compounds.
MissingOutputCompounding(track, fidx, ts) ==
    LET detection == track.current_detection
        held == track.last_landmarks # <<>> /\ track.hold_frames < MaxHoldFrames
        decayed == apply_conf_decay(track.last_landmarks,
                       RPow(CONF_DECAY, track.hold_frames + 1))
        dropped == [track EXCEPT !.current_dropout = @ + 1,
                                 !.longest_dropout = IMax(@, track.current_dropout + 1)]
    IN  [track |-> IF held
                   THEN [dropped EXCEPT !.hold_frames = @ + 1, !.predicted_frames = @ + 1,
                                        !.last_landmarks = decayed]
                   ELSE dropped,
         output |-> Output(track, fidx, ts,
                       IF held THEN decayed ELSE <<>>,
                       held,
                       detection # None /\ detection[1].too_small,
                       IF detection # None THEN Some(detection[1].bbox) ELSE None)]

\* Faulty variant of the last branch: a track without a detection is
\* emitted with its last bounding box.
MissingOutputLastBbox(track, fidx, ts) ==
    LET detection == track.current_detection
        held == track.last_landmarks # <<>> /\ track.hold_frames < MaxHoldFrames
        dropped == [track EXCEPT !.current_dropout = @ + 1,
                                 !.longest_dropout = IMax(@, track.current_dropout + 1)]
    IN  [track |-> IF held
                   THEN [dropped EXCEPT !.hold_frames = @ + 1, !.predicted_frames = @ + 1]
                   ELSE dropped,
         output |-> Output(track, fidx, ts,
                       IF held
                       THEN apply_conf_decay(track.last_landmarks,
                                RPow(CONF_DECAY, track.hold_frames + 1))
                       ELSE <<>>,
                       held,
                       detection # None /\ detection[1].too_small,
                       IF detection # None THEN Some(detection[1].bbox) ELSE track.last_bbox)]

\* Faulty variant of the last branch: the hold budget is not tested.
MissingOutputNoBudget(track, fidx, ts) ==
    LET detection == track.current_detection
        held == track.last_landmarks # <<>>
        dropped == [track EXCEPT !.current_dropout = @ + 1,
                                 !.longest_dropout = IMax(@, track.current_dropout + 1)]
    IN  [track |-> IF held
                   THEN [dropped EXCEPT !.hold_frames = @ + 1, !.predicted_frames = @ + 1]
                   ELSE dropped,
         output |-> Output(track, fidx, ts,
                       IF held
                       THEN apply_conf_decay(track.last_landmarks,
                                RPow(CONF_DECAY, track.hold_frames + 1))
                       ELSE <<>>,
                       held,
                       detection # None /\ detection[1].too_small,
                       IF detection # None THEN Some(detection[1].bbox) ELSE None)]

\* _build_track_output, the last branch: no detection this frame (or one
\* that is neither above the threshold nor flagged too_small).
MissingOutput(track, fidx, ts) ==
    LET detection == track.current_detection
        held == track.last_landmarks # <<>> /\ track.hold_frames < MaxHoldFrames
        dropped == [track EXCEPT !.current_dropout = @ + 1,
                                 !.longest_dropout = IMax(@, track.current_dropout + 1)]
    IN  [track |-> IF held
                   THEN [dropped EXCEPT !.hold_frames = @ + 1, !.predicted_frames = @ + 1]
                   ELSE dropped,
         output |-> Output(track, fidx, ts,
                       IF held
                       THEN apply_conf_decay(track.last_landmarks,
                                RPow(CONF_DECAY, track.hold_frames + 1))
                       ELSE <<>>,
                       held,
                       detection # None /\ detection[1].too_small,
                       IF detection # None THEN Some(detection[1].bbox) ELSE None)]

\* TrackManager._build_track_output: the track record after the call and
\* the dict returned.
build_track_output(track, fidx, ts) ==
    LET detection == track.current_detection
    IN  IF detection # None /\ detection[1].above_threshold
        THEN ActiveOutput(track, detection[1], fidx, ts)
        ELSE IF detection # None /\ detection[1].too_small
        THEN TooSmallOutput(track, detection[1], fidx, ts)
        ELSE MissingOutput(track, fidx, ts)

\* The loop of build_primary_frame from position i of the primary list on.
RECURSIVE BuildLoop(_, _, _, _, _)
BuildLoop(primary, i, fidx, ts, st) ==
    IF i > Len(primary) THEN st
    ELSE IF primary[i] \notin DOMAIN st.tracks
         THEN BuildLoop(primary, i + 1, fidx, ts, st)
         ELSE LET r == build_track_output(st.tracks[primary[i]], fidx, ts)
              IN  BuildLoop(primary, i + 1, fidx, ts,
                     [tracks |-> [st.tracks EXCEPT ![primary[i]] = r.track],
                      frame_tracks |-> Append(st.frame_tracks, r.output)])

\* fps = cap.get(CAP_PROP_FPS) or 30.0
Fps == 30

\* int(frame_index * 1000 / fps)
TimestampMs(fidx) == (fidx * 1000) \div Fps

\* A float() call of apply_conf_decay raised while the records were built.
Raised(records) ==
    \E i \in 1..Len(records) : \E k \in 1..Len(records[i].landmarks) :
        \E f \in {"x", "y", "z"} : records[i].landmarks[k][f] = <<"TypeError">>

\* The call of build_primary_frame and the rest of the loop body.  If the
\* call raises, no list is returned and the exception leaves the frame
\* loop; the track records are then never read again.
build_primary_frame ==
    /\ pc = "build"
    /\ LET r == BuildLoop(primary_track_ids, 1, frame_index, TimestampMs(frame_index),
                          [tracks |-> tracks, frame_tracks |-> <<>>])
       IN  IF Raised(r.frame_tracks)
           THEN /\ pc' = "raised"
                /\ UNCHANGED <<tracks, frame_tracks, frame_index>>
           ELSE /\ tracks' = r.tracks
                /\ frame_tracks' = r.frame_tracks
                /\ frame_index' = frame_index + 1
                /\ pc' = "update"
    /\ UNCHANGED <<primary_track_ids, next_id, refine_pos, call, prev_call, video, fn_args, fn_result>>

\* cap.read() fails: the video is over and the frame loop ends.
EndOfVideo ==
    /\ pc = "update"
    /\ pc' = "done"
    /\ UNCHANGED <<tracks, primary_track_ids, next_id, frame_index, refine_pos,
                   frame_tracks, call, prev_call, video, fn_args, fn_result>>

\* ---------------------------------------------------------- specification

NoCall ==
    [detections |-> <<>>, pair_candidates |-> <<>>, accepted |-> <<>>, created |-> <<>>,
     before |-> <<>>, primary_before |-> <<>>, frame_index |-> -1, overridden |-> {}]

\* The state when the frame loop is entered, for a given video.
OpenedEngine(poses, dets, frames) ==
    /\ tracks = <<>>
    /\ primary_track_ids = <<>>
    /\ next_id = 1
    /\ frame_index = 0
    /\ pc = "update"
    /\ refine_pos = 1
    /\ frame_tracks = <<>>
    /\ call = NoCall
    /\ prev_call = NoCall
    /\ video = [poses |-> poses, dets |-> dets, frames |-> frames]

\* extract_pose is the only caller of the engine.
Opened(poses, dets, frames) ==
    /\ OpenedEngine(poses, dets, frames)
    /\ fn_args = None
    /\ fn_result = None

Init == Opened(PoseSet, MaxDets, MaxFrames)

InitWide == Opened(PoseSetWide, MaxDets, MaxFrames)

InitLong == Opened(PoseSetLong, LongDets, LongFrames)

Next == update_tracks \/ refine_primary_tracks_step \/ build_primary_frame \/ EndOfVideo

Spec == Init /\ [][Next]_vars

\* The same program on the scene with the tall subject.
SpecWide == InitWide /\ [][Next]_vars

\* The same program on a longer video of a single subject.
SpecLong == InitLong /\ [][Next]_vars

\* ------------------------------------------- override_detection as an API

\* A caller of TrackManager.override_detection other than
\* _refine_primary_tracks, between update_tracks and build_primary_frame:
\* any id from 0 to the next free one, any of two detections.
override_detection_call ==
    /\ pc = "refine"
    /\ fn_args # None
    /\ fn_args.calls < MaxCalls
    /\ \E track_id \in 0..next_id :
       \E detection \in {Detection(CropPose, "crop"), Detection(PoseB, "video")} :
          /\ tracks' = override_detection(tracks, track_id, detection, frame_index)
          /\ fn_args' = [calls |-> fn_args.calls + 1, track_id |-> track_id,
                         track_ids |-> fn_args.track_ids \cup {track_id}]
    /\ UNCHANGED <<primary_track_ids, next_id, frame_index, pc, refine_pos, frame_tracks,
                   call, prev_call, video, fn_result>>

InitOverride ==
    /\ OpenedEngine({PoseA, PoseB}, MaxDets, OverrideFrames)
    /\ fn_args = [calls |-> 0, track_id |-> 0, track_ids |-> {}]
    /\ fn_result = None

NextOverride == Next \/ override_detection_call

SpecOverride == InitOverride /\ [][NextOverride]_vars

\* The same program on landmark sets without depth or visibility.
InitSparse == Opened(PoseSetSparse, LongDets, SparseFrames)

SpecSparse == InitSparse /\ [][Next]_vars

\* ------------------------------------------ functions called on their own

\* No video is being processed: the engine is as constructed and stays so.
EngineIdle ==
    /\ tracks = <<>>
    /\ primary_track_ids = <<>>
    /\ next_id = 1
    /\ frame_index = 0
    /\ pc = "function"
    /\ refine_pos = 1
    /\ frame_tracks = <<>>
    /\ call = NoCall
    /\ prev_call = NoCall
    /\ video = [poses |-> {}, dets |-> 0, frames |-> 0]

EngineVars == <<tracks, primary_track_ids, next_id, frame_index, pc, refine_pos,
                frame_tracks, call, prev_call, video>>

\* The floats of [1/2, 1).
FloatGrid == {<<m, Pow2(MantissaBits)>> : m \in Pow2(MantissaBits - 1)..(Pow2(MantissaBits) - 1)}

\* One landmark whose x is the float v; y is 0.5, z is 0.0 and the
\* visibility is not reported.
StreamSet(v) == <<Lm("NOSE", Rat(v[1], v[2]), <<1, 2>>, <<0, 1>>, None)>>

\* A track is about to be fed the same landmark set on every frame.
InitStream ==
    /\ EngineIdle
    /\ \E v \in FloatGrid : fn_args = [current |-> StreamSet(v), previous |-> None, frames |-> 0]
    /\ fn_result = None

\* One more frame of the stream: smoothed = smooth_landmarks(landmarks,
\* track.last_smoothed, alpha); track.last_smoothed = smoothed.
smooth_stream ==
    /\ pc = "function"
    /\ fn_args.frames < MaxStreamFrames
    /\ LET smoothed == smooth_landmarks_float(fn_args.current, fn_args.previous, FLOAT_ALPHA)
       IN  /\ fn_result' = smoothed
           /\ fn_args' = [fn_args EXCEPT !.previous = smoothed, !.frames = @ + 1]
    /\ UNCHANGED EngineVars

SpecStream == InitStream /\ [][smooth_stream]_vars

\* A field of a landmark dict: missing, zero or a positive number.
FieldValues == {None, <<0, 1>>, <<1, 2>>}

\* Landmark dicts of one name, any of whose x and conf may be missing, with
\* y and z missing or not together.
LandmarksNamed(name) ==
    {Lm(name, x, yz, yz, conf) : x \in FieldValues, yz \in {None, <<1, 4>>}, conf \in FieldValues}

\* smooth_landmarks is about to be called: current holds a NOSE and a
\* LEFT_HEEL, previous is None, [] or holds one landmark of either name.
InitSmooth ==
    /\ EngineIdle
    /\ \E c \in LandmarksNamed("NOSE") :
       \E previous \in {<<>>} \cup {<<l>> : l \in LandmarksNamed("NOSE") \cup LandmarksNamed("LEFT_HEEL")} :
          fn_args = [current |-> <<c, Lm("LEFT_HEEL", <<3, 4>>, <<3, 4>>, None, <<1, 1>>)>>,
                     previous |-> previous, alpha |-> EMA_ALPHA]
    /\ fn_result = None

\* The call smooth_landmarks(current, previous, alpha) returns.
smooth_landmarks_call ==
    /\ pc = "function"
    /\ fn_result = None
    /\ fn_result' = Some(smooth_landmarks(fn_args.current, fn_args.previous, fn_args.alpha))
    /\ UNCHANGED <<EngineVars, fn_args>>

SpecSmooth == InitSmooth /\ [][smooth_landmarks_call]_vars

\* Landmark coordinates as the detector reports them for a subject partly
\* or wholly outside the image: x left of, inside and right of it, y above,
\* inside and below it.  The y inside are 0.115, 0.2 and 0.085 apart.
CoordXs == {<<-1, 5>>, <<1, 4>>, <<6, 5>>}

CoordYs == {<<-1, 5>>, <<1, 4>>, <<73, 200>>, <<9, 20>>, <<6, 5>>}

\* Landmark dicts with and without an x and a y.
CoordLandmarks ==
    {Lm("NOSE", x, y, <<0, 1>>, None) : x \in CoordXs \cup {None}, y \in CoordYs \cup {None}}

\* The normalizer is about to build the detection dict of one pose of at
\* most MaxLandmarks landmarks, of a frame 480 or 1080 pixels high.
InitNormalizer ==
    /\ EngineIdle
    /\ \E landmarks \in SeqsUpTo(CoordLandmarks, MaxLandmarks) :
       \E height \in {SmallFrameHeight, FrameHeight} :
          fn_args = [landmarks |-> landmarks, height |-> height]
    /\ fn_result = None

\* The body of the loop of _detections_from_result for one pose.
detection_call ==
    /\ pc = "function"
    /\ fn_result = None
    /\ fn_result' = Some(DetectionAt(fn_args.landmarks, "video", fn_args.height))
    /\ UNCHANGED <<EngineVars, fn_args>>

SpecNormalizer == InitNormalizer /\ [][detection_call]_vars

\* ------------------------------------------------------ the analyze command

\* ResultStatus.OK, ResultStatus.ERROR
STATUS_OK == "ok"

STATUS_ERROR == "error"

\* write_result_ok: status "ok", the "error" key removed.
write_result_ok(result) == [status |-> STATUS_OK, error |-> None]

\* write_result_error: status "error", the "error" key set.
write_result_error(result, code) == [status |-> STATUS_ERROR, error |-> Some(code)]

\* The result dict with which analyze and _build_base_result start.
BaseResult == [status |-> STATUS_ERROR, error |-> None]

\* safe_write_json(outputs_dir / name, payload)
safe_write_json(disk, name, payload) ==
    [files |-> [disk.files EXCEPT ![name] = Some(payload)],
     written |-> disk.written \cup {name}]

\* The parameters of extract_pose and the keyword arguments analyze passes
\* to it: a keyword that is not a parameter raises TypeError at the call.
ExtractPoseParameters == {"video_path", "outputs_dir", "logger", "primary_tracks", "model_path"}

ExtractPoseKeywords == {"primary_tracks", "model_path", "num_poses", "crop_refine"}

\* How a call of extract_pose or render_overlay can end: it returns with
\* one of its two statuses, raises KnownError or raises something else.
StageOutcomes == {"ok", "degraded", "KnownError", "Exception"}

\* What is already in the outputs directory of the run.
StaleResults == {None, Some(write_result_ok(BaseResult)), Some(write_result_error(BaseResult, "E_VIDEO_OPEN"))}

StaleErrors == {None, Some(Some("E_VIDEO_OPEN"))}

\* The command line is about to be parsed.
InitCommand ==
    /\ EngineIdle
    /\ \E a \in {"valid", "invalid"}, v \in {"missing", "directory", "file"},
          c \in {"same", "copied", "OSError"}, p \in StageOutcomes, o \in StageOutcomes :
          fn_args = [argv |-> a, video |-> v, copy |-> c, pose |-> p, overlay |-> o]
    /\ \E r \in StaleResults, e \in StaleErrors :
          fn_result = [stage |-> "main", result |-> BaseResult, exit_code |-> None,
                       files |-> [result_json |-> r, error_json |-> e], written |-> {}]

\* main: parse_args fails, the error contract is written and 2 returned;
\* or analyze is entered.
main ==
    /\ pc = "function"
    /\ fn_result.stage = "main"
    /\ IF fn_args.argv = "invalid"
       THEN LET result == write_result_error(BaseResult, "E_ARGPARSE")
                d1 == safe_write_json(fn_result, "result_json", result)
                d2 == IF result.error # None
                      THEN safe_write_json(d1, "error_json", result.error) ELSE d1
            IN  fn_result' = [fn_result EXCEPT !.stage = "exit", !.result = result,
                                               !.files = d2.files, !.written = d2.written,
                                               !.exit_code = Some(2)]
       ELSE fn_result' = [fn_result EXCEPT !.stage = "try"]
    /\ UNCHANGED <<EngineVars, fn_args>>

\* How the try block of analyze ends: "ok" or the code of the error.
TryOutcome(args) ==
    IF args.video = "missing" THEN "E_VIDEO_MISSING"
    ELSE IF args.video = "directory" THEN "E_VIDEO_INVALID"
    ELSE IF args.copy = "OSError" THEN "E_UNEXPECTED"
    ELSE IF ~(ExtractPoseKeywords \subseteq ExtractPoseParameters) THEN "E_UNEXPECTED"
    ELSE IF args.pose = "KnownError" THEN "E_VIDEO_OPEN"
    ELSE IF args.pose = "Exception" THEN "E_UNEXPECTED"
    ELSE IF args.overlay = "KnownError" THEN "E_OVERLAY_WRITE"
    ELSE IF args.overlay = "Exception" THEN "E_UNEXPECTED"
    ELSE "ok"

\* Faulty variant of the try block and its handlers: an unexpected error
\* leaves the exit code of a completed run.
analyze_try_exit_zero ==
    /\ pc = "function"
    /\ fn_result.stage = "try"
    /\ LET outcome == TryOutcome(fn_args)
       IN  fn_result' =
             [fn_result EXCEPT
                !.stage = "finally",
                !.result = IF outcome = "ok" THEN write_result_ok(BaseResult)
                           ELSE write_result_error(BaseResult, outcome),
                !.exit_code = IF outcome = "ok" THEN Some(0)
                              ELSE IF outcome = "E_UNEXPECTED" THEN Some(0)
                              ELSE Some(2)]
    /\ UNCHANGED <<EngineVars, fn_args>>

\* analyze: the try block with its two except handlers.
analyze_try ==
    /\ pc = "function"
    /\ fn_result.stage = "try"
    /\ LET outcome == TryOutcome(fn_args)
       IN  fn_result' =
             [fn_result EXCEPT
                !.stage = "finally",
                !.result = IF outcome = "ok" THEN write_result_ok(BaseResult)
                           ELSE write_result_error(BaseResult, outcome),
                !.exit_code = IF outcome = "ok" THEN Some(0)
                              ELSE IF outcome = "E_UNEXPECTED" THEN Some(3)
                              ELSE Some(2)]
    /\ UNCHANGED <<EngineVars, fn_args>>

\* analyze: the finally block, then return exit_code.
analyze_finally ==
    /\ pc = "function"
    /\ fn_result.stage = "finally"
    /\ LET d1 == safe_write_json(fn_result, "result_json", fn_result.result)
           d2 == IF fn_result.result.status = STATUS_ERROR
                 THEN safe_write_json(d1, "error_json", fn_result.result.error) ELSE d1
       IN  fn_result' = [fn_result EXCEPT !.stage = "exit", !.files = d2.files,
                                          !.written = d2.written]
    /\ UNCHANGED <<EngineVars, fn_args>>

NextCommand == main \/ analyze_try \/ analyze_finally

SpecCommand == InitCommand /\ [][NextCommand]_vars

\* ------------------------------------------------------------------ claims

\* The state right after an update_tracks call, before any override.
AfterUpdate ==
    /\ pc \in {"refine", "build"}
    /\ call.frame_index = frame_index
    /\ call.overridden = {}

\* The pairs (track id, detection index) of the last call: detections
\* applied to existing tracks, and detections that spawned a track.
AcceptedPairs == {call.accepted[i] : i \in 1..Len(call.accepted)}

CreatedPairs == {call.created[i] : i \in 1..Len(call.created)}

\* The cost of the assignment engine as the design states it.
DesignCost(track, detection) ==
    LET last_height == track.last_bbox[1].height
        norm == IF RLt(<<0, 1>>, last_height) THEN last_height ELSE <<1, 1>>
        dist == Hypot(RSub(detection.center[1], track.last_center[1]),
                      RSub(detection.center[2], track.last_center[2]))
    IN  RDiv(RAdd(dist, RAbs(RSub(detection.bbox.height, last_height))), norm)

\* C1: track ids are unique and never reused: the k-th track ever created
\* has id k, so the keys of the table are exactly 1..(_next_id - 1), each
\* record carries its key, and the tracks one call creates get the next
\* ids in creation order.
C1_IdsUniqueAscending ==
    /\ DOMAIN tracks = 1..(next_id - 1)
    /\ \A t \in DOMAIN tracks : tracks[t].track_id = t
    /\ \A i \in 1..Len(call.created) :
          call.created[i][1] = Cardinality(DOMAIN call.before) + i

C1_Witness ==
    /\ next_id >= 4
    /\ call.created # <<>>
    /\ DOMAIN call.before # {}

\* C2: within one update_tracks call the pairing is one-to-one: no track
\* is applied two detections, no detection is applied to two tracks, and
\* a detection that spawned a track is not also applied to an existing one.
C2_PairingOneToOne ==
    /\ \A i, j \in 1..Len(call.accepted) :
          i # j => /\ call.accepted[i][1] # call.accepted[j][1]
                   /\ call.accepted[i][2] # call.accepted[j][2]
    /\ \A i, j \in 1..Len(call.created) :
          i # j => /\ call.created[i][1] # call.created[j][1]
                   /\ call.created[i][2] # call.created[j][2]
    /\ \A p \in AcceptedPairs, q \in CreatedPairs : p[1] # q[1] /\ p[2] # q[2]
    /\ \A p \in AcceptedPairs : p[1] \in DOMAIN call.before
    /\ \A q \in CreatedPairs : q[1] \notin DOMAIN call.before

C2_Witness ==
    /\ Len(call.accepted) >= 1
    /\ Len(call.created) >= 1
    /\ Len(call.pair_candidates) > Len(call.accepted)

\* C3: a detection is applied to an existing track only if the cost
\* (distance of the centers + difference of the heights) / norm, taken on
\* the track as it was before the call, is at most ASSIGNMENT_THRESHOLD.
C3_AcceptedWithinThreshold ==
    \A p \in AcceptedPairs :
        RLe(DesignCost(call.before[p[1]], call.detections[p[2]]), ASSIGNMENT_THRESHOLD)

C3_Witness ==
    /\ \E p \in AcceptedPairs :
          DesignCost(call.before[p[1]], call.detections[p[2]]) = ASSIGNMENT_THRESHOLD
    /\ \E t \in DOMAIN call.before, d \in 1..Len(call.detections) :
          RLt(ASSIGNMENT_THRESHOLD, DesignCost(call.before[t], call.detections[d]))

\* The candidate pairs of call c as the design states them: every
\* (existing track, detection) whose cost is within the threshold.
DesignCandidates(c) ==
    {p \in (DOMAIN c.before) \X (1..Len(c.detections)) :
        RLe(DesignCost(c.before[p[1]], c.detections[p[2]]), ASSIGNMENT_THRESHOLD)}

PairCost(c, p) == DesignCost(c.before[p[1]], c.detections[p[2]])

\* p comes before q: ascending cost, ties by ascending track id, then
\* ascending detection index.
Precedes(c, p, q) ==
    \/ RLt(PairCost(c, p), PairCost(c, q))
    \/ /\ PairCost(c, p) = PairCost(c, q)
       /\ (p[1] < q[1] \/ (p[1] = q[1] /\ p[2] < q[2]))

Claims(p, q) == p[1] = q[1] \/ p[2] = q[2]

PairsOf(seq) == {seq[i] : i \in 1..Len(seq)}

GreedyIn(c) ==
    /\ PairsOf(c.accepted) \subseteq DesignCandidates(c)
    /\ \A i, j \in 1..Len(c.accepted) : i < j => Precedes(c, c.accepted[i], c.accepted[j])
    /\ \A q \in DesignCandidates(c) \ PairsOf(c.accepted) :
          \E p \in PairsOf(c.accepted) : Claims(p, q) /\ Precedes(c, p, q)

\* C4: the assignment is the greedy minimum-cost matching: pairs are
\* accepted in ascending cost order, ties by (track id, detection index),
\* and every candidate that is not accepted has its track or detection
\* claimed by an accepted pair that precedes it in that order.
C4_GreedyMatching == GreedyIn(call)

\* A tie decided by enumeration order in c.
TieIn(c) ==
    \E p \in PairsOf(c.accepted), q \in DesignCandidates(c) \ PairsOf(c.accepted) :
        Claims(p, q) /\ PairCost(c, p) = PairCost(c, q)

\* A cheaper pair accepted over one that is enumerated earlier in c.
SortDecidesIn(c) ==
    \E p \in PairsOf(c.accepted), q \in DesignCandidates(c) \ PairsOf(c.accepted) :
        /\ Claims(p, q)
        /\ RLt(PairCost(c, p), PairCost(c, q))
        /\ (q[1] < p[1] \/ (q[1] = p[1] /\ q[2] < p[2]))

C4_Witness == TieIn(call) /\ SortDecidesIn(prev_call)

\* Detection index -> track id over the pairs of call c.
AssignedIn(c) == PairsOf(c.accepted) \cup PairsOf(c.created)

\* C5: every detection that is not matched to an existing track spawns
\* exactly one new track: the tracks created are as many as the detections
\* minus the accepted pairs, every detection index is in exactly one pair,
\* and right after the call each detection is the current detection of
\* its track and of no other.
C5_UnmatchedSpawn ==
    AfterUpdate =>
        /\ Cardinality(DOMAIN tracks) - Cardinality(DOMAIN call.before)
              = Len(call.detections) - Len(call.accepted)
        /\ Len(call.created) = Len(call.detections) - Len(call.accepted)
        /\ \A d \in 1..Len(call.detections) :
              /\ Cardinality({p \in AssignedIn(call) : p[2] = d}) = 1
              /\ \A p \in AssignedIn(call) :
                    p[2] = d => tracks[p[1]].current_detection = Some(call.detections[d])
        /\ \A t \in DOMAIN tracks :
              tracks[t].current_detection # None
                  => Cardinality({p \in AssignedIn(call) : p[1] = t}) = 1

C5_Witness ==
    /\ AfterUpdate
    /\ Len(call.created) = 1
    /\ Len(call.accepted) = 1
    /\ \E t \in DOMAIN call.before : tracks[t].current_detection = None

\* C6: a track that existed before the call and is not matched keeps its
\* place in the table with current_detection cleared and missed_frames
\* one higher; a matched or newly created track has missed_frames 0; an
\* empty detection list creates nothing and marks every track missed.
C6_MissedMarked ==
    AfterUpdate =>
        /\ \A t \in DOMAIN call.before :
              (\A p \in AssignedIn(call) : p[1] # t)
                  => /\ t \in DOMAIN tracks
                     /\ tracks[t].current_detection = None
                     /\ tracks[t].missed_frames = call.before[t].missed_frames + 1
        /\ \A p \in AssignedIn(call) : tracks[p[1]].missed_frames = 0
        /\ call.detections = <<>>
              => /\ DOMAIN tracks = DOMAIN call.before
                 /\ \A t \in DOMAIN tracks :
                       tracks[t].missed_frames = call.before[t].missed_frames + 1

C6_Witness ==
    /\ AfterUpdate
    /\ call.detections = <<>>
    /\ \E t \in DOMAIN tracks : tracks[t].missed_frames = 2
    /\ \E t \in DOMAIN tracks : tracks[t].missed_frames = 1

\* C7: no operation removes a track: over every step the ids of the
\* table only grow, and a record keeps its id.
C7_TracksNeverRemoved ==
    [][/\ DOMAIN tracks \subseteq DOMAIN tracks'
       /\ \A t \in DOMAIN tracks : tracks'[t].track_id = tracks[t].track_id]_vars

C7_Witness ==
    /\ pc = "done"
    /\ Cardinality(DOMAIN tracks) >= 3
    /\ \E t \in DOMAIN tracks :
          /\ tracks[t].missed_frames > PrimaryDropFrames
          /\ t \notin PairsOf(primary_track_ids)

\* C9: the primary-track set is a duplicate-free list of at most
\* PrimaryTrackCount ids, each of which exists in the track table.
C9_PrimarySetWellFormed ==
    /\ Len(primary_track_ids) <= PrimaryTrackCount
    /\ \A i, j \in 1..Len(primary_track_ids) :
          i # j => primary_track_ids[i] # primary_track_ids[j]
    /\ \A i \in 1..Len(primary_track_ids) : primary_track_ids[i] \in DOMAIN tracks

C9_Witness ==
    /\ Len(primary_track_ids) = PrimaryTrackCount
    /\ Cardinality({t \in DOMAIN tracks : has_above_threshold(tracks[t])}) > PrimaryTrackCount
    /\ primary_track_ids # call.primary_before

\* C10: a track whose above-threshold height window is empty is never a
\* member of the primary-track set.
C10_PrimaryHasAboveSample ==
    \A t \in DOMAIN tracks :
        tracks[t].height_history_above = <<>> => t \notin PairsOf(primary_track_ids)

C10_Witness ==
    /\ Len(primary_track_ids) < PrimaryTrackCount
    /\ primary_track_ids # <<>>
    /\ \E t \in DOMAIN tracks : tracks[t].height_history_above = <<>>

\* Two consecutive update_tracks calls were given the same detection list.
SameDetectionsTwice ==
    /\ AfterUpdate
    /\ prev_call.frame_index = call.frame_index - 1
    /\ prev_call.frame_index >= 0
    /\ call.detections = prev_call.detections
    /\ call.detections # <<>>

SamePairing == AssignedIn(call) = AssignedIn(prev_call) /\ call.created = <<>>

\* No two detections of call c share both center and box height.
DistinctBoxes(c) ==
    \A i, j \in 1..Len(c.detections) :
        i # j => \/ c.detections[i].center # c.detections[j].center
                 \/ c.detections[i].bbox.height # c.detections[j].bbox.height

\* No two detections of call c are the same dict.
DistinctDetections(c) ==
    \A i, j \in 1..Len(c.detections) : i # j => c.detections[i] # c.detections[j]

\* C8 as stated: when two consecutive frames carry identical detection
\* lists, the second update_tracks assigns every detection to the same
\* track id as the first did and creates no track.  Stated here for the
\* frames that favour it most: the detections of the frame differ from one
\* another and no override was injected between the two calls.
C8_SamePairingAsStated ==
    (SameDetectionsTwice /\ DistinctDetections(call) /\ prev_call.overridden = {})
        => SamePairing

\* C8 (amended): when two consecutive update_tracks calls, with no
\* override in between, are given identical detection lists in which no
\* two detections share both center and box height, the second call
\* assigns every detection to the same track id as the first did and
\* creates no track.
C8_SamePairingDistinctBoxes ==
    (SameDetectionsTwice /\ DistinctBoxes(call) /\ prev_call.overridden = {})
        => SamePairing

\* The second call has two tracks compete for two detections it has seen.
C8_Witness ==
    /\ SameDetectionsTwice
    /\ DistinctBoxes(call)
    /\ prev_call.overridden = {}
    /\ Len(call.detections) = 2
    /\ Len(call.pair_candidates) = 4
    /\ prev_call.created = <<>>
    /\ SamePairing

\* ------------------------------------------------- primary-track selector

\* The tracks with a non-empty above-threshold window.
Qualifying == {t \in DOMAIN tracks : tracks[t].height_history_above # <<>>}

\* Mean of the above-threshold window of a qualifying track.
MeanAbove(t) ==
    RDiv(RSum(tracks[t].height_history_above), <<Len(tracks[t].height_history_above), 1>>)

\* t comes before u in the ranking: higher mean, or the same mean and a lower id.
RankedBefore(t, u) ==
    \/ RLt(MeanAbove(u), MeanAbove(t))
    \/ (MeanAbove(u) = MeanAbove(t) /\ t < u)

\* The ids that were primary before the last update_tracks call and have
\* not been missing for more than PrimaryDropFrames frames after it.
Retained ==
    SelectSeq(call.primary_before,
              LAMBDA t : t \in DOMAIN tracks /\ tracks[t].missed_frames <= PrimaryDropFrames)

\* The last update_tracks call computed the primary set by ranking.
Recomputed == AfterUpdate /\ Len(Retained) < PrimaryTrackCount

\* C11: whenever the primary set is computed by ranking, it is the first
\* PrimaryTrackCount tracks among those with a non-empty above-threshold
\* window, in descending order of average above-threshold height, ties in
\* ascending order of track id.
C11_RankedSelection ==
    Recomputed =>
        /\ Len(primary_track_ids) =
               IMin(PrimaryTrackCount, Cardinality(Qualifying))
        /\ \A i \in 1..Len(primary_track_ids) :
               /\ primary_track_ids[i] \in Qualifying
               /\ Cardinality({u \in Qualifying :
                                  RankedBefore(u, primary_track_ids[i])}) = i - 1

\* A ranking over three qualifying tracks, two of them tied, in which the
\* first place goes to a track that is not the oldest.
C11_Witness ==
    /\ Recomputed
    /\ Cardinality(Qualifying) > PrimaryTrackCount
    /\ Len(primary_track_ids) = PrimaryTrackCount
    /\ RLt(MeanAbove(primary_track_ids[2]), MeanAbove(primary_track_ids[1]))
    /\ \E u \in Qualifying : /\ u \notin {primary_track_ids[1], primary_track_ids[2]}
                             /\ MeanAbove(u) = MeanAbove(primary_track_ids[2])
    /\ primary_track_ids[1] > primary_track_ids[2]

\* The ids of a list.
IdsOf(seq) == {seq[i] : i \in 1..Len(seq)}

\* Track t was primary before the last update_tracks call with a miss
\* streak below PrimaryDropFrames (before or after the matching of the frame).
BrieflyMissing(t) ==
    /\ t \in IdsOf(call.primary_before)
    /\ \/ call.before[t].missed_frames < PrimaryDropFrames
       \/ tracks[t].missed_frames < PrimaryDropFrames

\* C12 as stated: a track that is primary before a frame and whose miss
\* streak is below PRIMARY_DROP_FRAMES is still primary after the refresh
\* of that frame.  Stated here for the tracks whose streak is below the
\* limit both before and after the matching of the frame.
C12_RetainedAsStated ==
    AfterUpdate =>
        \A t \in DOMAIN tracks :
            (/\ t \in IdsOf(call.primary_before)
             /\ call.before[t].missed_frames < PrimaryDropFrames
             /\ tracks[t].missed_frames < PrimaryDropFrames)
                => t \in IdsOf(primary_track_ids)

\* C12 (amended): a track that is primary before a frame and whose miss
\* streak is below PRIMARY_DROP_FRAMES is still primary after the refresh
\* of that frame if PrimaryTrackCount primary ids are retained, or if
\* fewer than PrimaryTrackCount tracks come before it in the ranking.
C12_RetainedWhenFullOrRanked ==
    AfterUpdate =>
        \A t \in DOMAIN tracks :
            (/\ BrieflyMissing(t)
             /\ \/ Len(Retained) = PrimaryTrackCount
                \/ Cardinality({u \in Qualifying : RankedBefore(u, t)}) < PrimaryTrackCount)
                => t \in IdsOf(primary_track_ids)

\* A primary track goes unmatched for a frame and stays primary, while a
\* track outside the primary set has a higher average height.
C12_Witness ==
    /\ AfterUpdate
    /\ Len(Retained) = PrimaryTrackCount
    /\ \E t \in DOMAIN tracks :
          /\ BrieflyMissing(t)
          /\ tracks[t].current_detection = None
          /\ t \in IdsOf(primary_track_ids)
          /\ \E u \in Qualifying \ IdsOf(primary_track_ids) :
                RLt(MeanAbove(t), MeanAbove(u))

\* C13: a primary track whose missed-frame counter exceeds
\* PRIMARY_DROP_FRAMES is no longer in the primary set after the refresh of
\* that frame.
C13_DroppedWhenMissingTooLong ==
    AfterUpdate =>
        \A t \in IdsOf(call.primary_before) :
            tracks[t].missed_frames > PrimaryDropFrames => t \notin IdsOf(primary_track_ids)

\* C14: if the primary set has PrimaryTrackCount ids before a frame and none
\* of them has been missing for more than PRIMARY_DROP_FRAMES frames when the
\* set is refreshed, the primary set after the frame is the same list, in
\* the same order, whatever other tracks exist.
C14_FullSetKept ==
    (/\ AfterUpdate
     /\ Len(call.primary_before) = PrimaryTrackCount
     /\ \A t \in IdsOf(call.primary_before) : tracks[t].missed_frames <= PrimaryDropFrames)
        => primary_track_ids = call.primary_before

\* A full primary set is kept although one of its tracks was not matched
\* and a track outside it would be ranked first.
C14_Witness ==
    /\ AfterUpdate
    /\ Len(call.primary_before) = PrimaryTrackCount
    /\ primary_track_ids = call.primary_before
    /\ \E t \in IdsOf(call.primary_before) : tracks[t].missed_frames = PrimaryDropFrames
    /\ \E u \in Qualifying \ IdsOf(call.primary_before) :
          \A t \in IdsOf(call.primary_before) : RankedBefore(u, t)

\* ------------------------------------------------------ lifecycle output

\* Track t holds a detection above the size threshold (Active), a
\* detection below it (TooSmall), or none (unmatched).
IsActive(t) ==
    tracks[t].current_detection # None /\ tracks[t].current_detection[1].above_threshold

IsTooSmall(t) ==
    tracks[t].current_detection # None /\ ~tracks[t].current_detection[1].above_threshold

IsUnmatched(t) == tracks[t].current_detection = None

\* alpha * c + (1 - alpha) * p for alpha = 0.4, a missing value replaced by
\* the other one.
Blend(c, p) ==
    IF c = None THEN p
    ELSE IF p = None THEN c
    ELSE RAdd(RMul(<<2, 5>>, c), RMul(<<3, 5>>, p))

\* out is the smoothing of the landmark set cur against the previous
\* smoothed set prev: unchanged without a previous set or a previous
\* landmark of that name, blended field by field otherwise.
SmoothedFrom(out, cur, prev) ==
    /\ Len(out) = Len(cur)
    /\ \A k \in 1..Len(cur) :
          LET same == {j \in 1..Len(prev) : prev[j].name = cur[k].name}
          IN  IF same = {} THEN out[k] = cur[k]
              ELSE /\ out[k].name = cur[k].name
                   /\ \E j \in same :
                         /\ \A m \in same : m <= j
                         /\ \A f \in {"x", "y", "z", "conf"} :
                               out[k][f] = Blend(cur[k][f], prev[j][f])

\* C15: for a primary track holding an above-threshold detection,
\* build_primary_frame emits the smoothed landmarks with is_predicted and
\* too_small false, resets the hold-frame and current-dropout counters and
\* adds exactly one to the detected-frame counter.
C15_ActiveOutput ==
    [][pc = "build" =>
        \A i \in 1..Len(primary_track_ids) :
            LET t == primary_track_ids[i]
            IN  IsActive(t) =>
                  /\ frame_tracks'[i].track_id = t
                  /\ SmoothedFrom(frame_tracks'[i].landmarks,
                                  tracks[t].current_detection[1].landmarks,
                                  tracks[t].last_smoothed)
                  /\ frame_tracks'[i].is_predicted = FALSE
                  /\ frame_tracks'[i].too_small = FALSE
                  /\ tracks'[t].hold_frames = 0
                  /\ tracks'[t].current_dropout = 0
                  /\ tracks'[t].detected_frames = tracks[t].detected_frames + 1]_vars

\* A track that was held on an earlier frame is detected again, and the
\* landmarks emitted for it differ from the raw ones of the detection.
C15_Witness ==
    /\ pc = "update"
    /\ \E i \in 1..Len(frame_tracks) :
          LET t == frame_tracks[i].track_id
          IN  /\ IsActive(t)
              /\ frame_tracks[i].frame_index = frame_index - 1
              /\ frame_tracks[i].is_predicted = FALSE
              /\ frame_tracks[i].landmarks # tracks[t].current_detection[1].landmarks
              /\ tracks[t].predicted_frames > 0
              /\ tracks[t].hold_frames = 0
              /\ tracks[t].detected_frames = 2

\* C16: for a primary track holding a detection below the size threshold,
\* build_primary_frame emits an empty landmark list with is_predicted false
\* and too_small true, adds one to the dropout streak and leaves the
\* detected-frame and predicted-frame counters unchanged.
C16_TooSmallOutput ==
    [][pc = "build" =>
        \A i \in 1..Len(primary_track_ids) :
            LET t == primary_track_ids[i]
            IN  IsTooSmall(t) =>
                  /\ frame_tracks'[i].track_id = t
                  /\ frame_tracks'[i].landmarks = <<>>
                  /\ frame_tracks'[i].is_predicted = FALSE
                  /\ frame_tracks'[i].too_small = TRUE
                  /\ tracks'[t].current_dropout = tracks[t].current_dropout + 1
                  /\ tracks'[t].detected_frames = tracks[t].detected_frames
                  /\ tracks'[t].predicted_frames = tracks[t].predicted_frames]_vars

\* A track with landmarks to predict from and a running dropout streak is
\* matched to a detection that is too small.
C16_Witness ==
    /\ pc = "update"
    /\ \E i \in 1..Len(frame_tracks) :
          LET t == frame_tracks[i].track_id
          IN  /\ IsTooSmall(t)
              /\ tracks[t].current_detection[1].source = "video"
              /\ frame_tracks[i].frame_index = frame_index - 1
              /\ frame_tracks[i].too_small = TRUE
              /\ tracks[t].last_landmarks # <<>>
              /\ tracks[t].current_dropout = 2
              /\ tracks[t].detected_frames = 1

\* C17: for a primary track with no detection this frame,
\* build_primary_frame emits predicted landmarks (is_predicted true) and adds
\* one to the predicted-frame counter and to the hold-frame count if and only
\* if the track has a non-empty last landmark set and its hold-frame count is
\* below MAX_HOLD_FRAMES; otherwise it emits an empty list with is_predicted
\* false and changes neither counter.
C17_HeldOrLost ==
    [][pc = "build" =>
        \A i \in 1..Len(primary_track_ids) :
            LET t == primary_track_ids[i]
                usable == /\ tracks[t].last_landmarks # <<>>
                          /\ tracks[t].hold_frames < MaxHoldFrames
            IN  IsUnmatched(t) =>
                  /\ frame_tracks'[i].track_id = t
                  /\ usable =>
                        /\ frame_tracks'[i].is_predicted = TRUE
                        /\ Len(frame_tracks'[i].landmarks) = Len(tracks[t].last_landmarks)
                        /\ tracks'[t].predicted_frames = tracks[t].predicted_frames + 1
                        /\ tracks'[t].hold_frames = tracks[t].hold_frames + 1
                  /\ ~usable =>
                        /\ frame_tracks'[i].is_predicted = FALSE
                        /\ frame_tracks'[i].landmarks = <<>>
                        /\ tracks'[t].predicted_frames = tracks[t].predicted_frames
                        /\ tracks'[t].hold_frames = tracks[t].hold_frames]_vars

\* A track with landmarks to predict from has been held for MaxHoldFrames
\* frames and is unmatched once more: nothing is emitted for it.
C17_Witness ==
    /\ pc = "update"
    /\ \E i \in 1..Len(frame_tracks) :
          LET t == frame_tracks[i].track_id
          IN  /\ IsUnmatched(t)
              /\ frame_tracks[i].frame_index = frame_index - 1
              /\ frame_tracks[i].is_predicted = FALSE
              /\ frame_tracks[i].landmarks = <<>>
              /\ tracks[t].last_landmarks # <<>>
              /\ tracks[t].hold_frames = MaxHoldFrames
              /\ tracks[t].predicted_frames = MaxHoldFrames
              /\ tracks[t].current_dropout = MaxHoldFrames + 1

\* The record emitted for track t on the previous frame, if it was a held
\* one: <<>> otherwise.
HeldBefore(t) ==
    SelectSeq(frame_tracks, LAMBDA o : /\ o.track_id = t
                                       /\ o.frame_index = frame_index - 1
                                       /\ o.is_predicted)

\* Confidence c2 is strictly below confidence c1.
StrictlyBelow(c2, c1) == c1 # None /\ c2 # None /\ RLt(c2, c1)

\* C18 as stated: on each additional held frame of a track the emitted
\* confidence of every landmark is strictly below the one emitted on the
\* held frame before.
C18_ConfidenceDecreasesAsStated ==
    [][pc = "build" =>
        \A i \in 1..Len(primary_track_ids) :
            LET t == primary_track_ids[i]
            IN  (IsUnmatched(t) /\ HeldBefore(t) # <<>> /\ frame_tracks'[i].is_predicted) =>
                  \A k \in 1..Len(frame_tracks'[i].landmarks) :
                      StrictlyBelow(frame_tracks'[i].landmarks[k].conf,
                                    HeldBefore(t)[1].landmarks[k].conf)]_vars

\* C18 (amended): on the held frames of an unmatched primary track the hold
\* count goes 1, 2, 3, ... and every landmark is emitted with its last
\* confidence times decay^h, so a positive confidence strictly decreases on
\* each additional held frame; once MAX_HOLD_FRAMES frames were held, an
\* unmatched frame emits no landmarks; and a frame on which the track holds
\* an above-threshold detection again emits is_predicted = false.
C18_HoldDecay ==
    [][pc = "build" =>
        \A i \in 1..Len(primary_track_ids) :
            LET t == primary_track_ids[i]
                out == frame_tracks'[i]
            IN  /\ (IsUnmatched(t) /\ out.is_predicted) =>
                      /\ tracks'[t].hold_frames = tracks[t].hold_frames + 1
                      /\ \A k \in 1..Len(out.landmarks) :
                            LET last == tracks[t].last_landmarks[k].conf
                            IN  /\ out.landmarks[k].conf =
                                     (IF last = None THEN None
                                      ELSE RMul(last, RPow(<<19, 20>>, tracks'[t].hold_frames)))
                                /\ (HeldBefore(t) # <<>> /\ last # None /\ RLt(<<0, 1>>, last)) =>
                                       StrictlyBelow(out.landmarks[k].conf,
                                                     HeldBefore(t)[1].landmarks[k].conf)
                /\ (IsUnmatched(t) /\ tracks[t].hold_frames >= MaxHoldFrames) =>
                      (out.landmarks = <<>> /\ ~out.is_predicted)
                /\ (IsActive(t) /\ tracks[t].hold_frames > 0) => ~out.is_predicted]_vars

\* A track is held for a second frame in a row and a landmark of positive
\* confidence is emitted for it.
C18_Witness ==
    /\ pc = "update"
    /\ \E i \in 1..Len(frame_tracks) :
          LET t == frame_tracks[i].track_id
          IN  /\ IsUnmatched(t)
              /\ frame_tracks[i].frame_index = frame_index - 1
              /\ frame_tracks[i].is_predicted
              /\ tracks[t].hold_frames = 2
              /\ \E k \in 1..Len(frame_tracks[i].landmarks) :
                    /\ frame_tracks[i].landmarks[k].conf # None
                    /\ RLt(<<0, 1>>, frame_tracks[i].landmarks[k].conf)

\* A frame has been processed completely.
AfterFrame == pc = "update" /\ frame_index > 0

\* C19: after each frame the longest-miss-streak counter of every track
\* of the table equals the longest run of consecutive frames in which the
\* track had no successful match.  Stated here through a consequence: the
\* run of unmatched frames the track is in (missed_frames of them, the
\* last frame included) is no longer than the counter says.
C19_LongestDropoutIsLongestMissRun ==
    AfterFrame =>
        \A t \in DOMAIN tracks : tracks[t].longest_dropout >= tracks[t].missed_frames

\* The last frame was an Active one for track t.
ActiveLastFrame(t) ==
    /\ AfterFrame
    /\ IsActive(t)
    /\ \E i \in 1..Len(frame_tracks) : /\ frame_tracks[i].track_id = t
                                        /\ frame_tracks[i].frame_index = frame_index - 1

\* C20: between two Active frames of a track at most MAX_HOLD_FRAMES frames
\* emit predicted landmarks, whatever unmatched and too-small frames lie in
\* between.  Stated for the first two Active frames of a track: when the
\* second one has been built, no more than MAX_HOLD_FRAMES frames were
\* predicted for the track.
C20_HoldBudgetBetweenActiveFrames ==
    \A t \in DOMAIN tracks :
        (ActiveLastFrame(t) /\ tracks[t].detected_frames = 2)
            => tracks[t].predicted_frames <= MaxHoldFrames

\* ------------------------------------------------------- height windows

\* Window w2 is window w1, or w1 with the height v appended at the end and,
\* if w1 was full, its oldest entry removed.
FifoStep(w1, w2, v) ==
    \/ w2 = w1
    \/ Len(w1) < HeightWindow /\ w2 = Append(w1, v)
    \/ Len(w1) = HeightWindow /\ w2 = Append(Tail(w1), v)

\* C21: the two height windows of a track never hold more than
\* height_window entries; a height appended to a full window evicts the
\* oldest entry and the others keep their order.
C21_WindowsBoundedFifo ==
    [][\A t \in DOMAIN tracks' :
          LET after == tracks'[t]
              before == IF t \in DOMAIN tracks THEN tracks[t] ELSE NewTrackState(t)
              v == IF after.current_detection = None THEN <<0, 1>>
                   ELSE after.current_detection[1].bbox.height
          IN  /\ Len(after.height_history) <= HeightWindow
              /\ Len(after.height_history_above) <= HeightWindow
              /\ FifoStep(before.height_history, after.height_history, v)
              /\ FifoStep(before.height_history_above, after.height_history_above, v)]_vars

\* Both windows of a track were full, with different heights in them, and
\* the last update_tracks call appended another height to both.
C21_Witness ==
    /\ AfterUpdate
    /\ \E t \in DOMAIN call.before :
          /\ Len(call.before[t].height_history) = HeightWindow
          /\ Len(call.before[t].height_history_above) = HeightWindow
          /\ call.before[t].height_history[1] # call.before[t].height_history[2]
          /\ tracks[t].height_history # call.before[t].height_history
          /\ tracks[t].height_history_above # call.before[t].height_history_above
          /\ tracks[t].height_history_above[1] # call.before[t].height_history_above[1]

\* --------------------------------------------------------------- smoother

\* |s - v| <= k * 2^(-MantissaBits) * |v|: s is within k units of roundoff
\* of v.
WithinRoundoff(s, v, k) ==
    RLe(RMul(RAbs(RSub(s, v)), <<Pow2(MantissaBits), 1>>), RMul(<<k, 1>>, RAbs(v)))

\* C22 as stated: when the same landmark set is fed on every frame, the
\* smoothed output of every frame equals that set.
C22_ConstantStreamFixedAsStated ==
    fn_args.frames > 0 => fn_result = fn_args.current

\* C22 (amended): when the same landmark set is fed on every frame, the
\* smoothed output of every frame has the landmarks of that set, and every
\* field of it is the field of the input up to rounding: absent if it is
\* absent, and within 8 units of roundoff of it otherwise (equal to it if
\* it is 0).
C22_ConstantStreamWithinRoundoff ==
    fn_args.frames > 0 =>
        /\ Len(fn_result) = Len(fn_args.current)
        /\ \A k \in 1..Len(fn_result) :
              /\ fn_result[k].name = fn_args.current[k].name
              /\ \A f \in {"x", "y", "z", "conf"} :
                    IF fn_args.current[k][f] = None THEN fn_result[k][f] = None
                    ELSE /\ fn_result[k][f] # None
                         /\ WithinRoundoff(fn_result[k][f], fn_args.current[k][f], 8)

\* After the last frame of a stream the smoothed x is not the x fed, the
\* fields 0.5, 0.0 and the absent one are as fed.
C22_Witness ==
    /\ fn_args.frames = MaxStreamFrames
    /\ fn_result[1].x # fn_args.current[1].x
    /\ fn_result[1].y = fn_args.current[1].y
    /\ fn_result[1].z = <<0, 1>>
    /\ fn_result[1].conf = None

\* The landmarks of a set that carry a name.
Named(set, name) == {set[i] : i \in {j \in 1..Len(set) : set[j].name = name}}

\* A landmark field as a call can return it: missing or a number.
IsField(v) == v = None \/ (Len(v) = 2 /\ v[1] \in Int /\ v[2] \in Nat \ {0})

\* C23: smooth_landmarks returns a landmark set whatever is missing: the
\* current set itself when there is no previous set; otherwise a set with
\* one landmark per current landmark, which is the current landmark when
\* the previous set has none of its name, and else has each field equal to
\* alpha*current + (1-alpha)*previous when both fields are present and to
\* whichever of the two is present otherwise.
C23_SmoothingToleratesMissingData ==
    fn_result # None =>
        LET current == fn_args.current
            previous == fn_args.previous
            alpha == fn_args.alpha
            out == fn_result[1]
        IN  IF previous = <<>> THEN out = current
            ELSE /\ Len(out) = Len(current)
                 /\ \A i \in 1..Len(out) :
                       IF Named(previous, current[i].name) = {} THEN out[i] = current[i]
                       ELSE \A q \in Named(previous, current[i].name) :
                              /\ out[i].name = current[i].name
                              /\ \A f \in {"x", "y", "z", "conf"} :
                                    LET c == current[i][f]
                                        v == q[f]
                                    IN  /\ IsField(out[i][f])
                                        /\ c # None /\ v # None =>
                                              out[i][f] = RAdd(RMul(alpha, c),
                                                               RMul(RSub(<<1, 1>>, alpha), v))
                                        /\ c # None /\ v = None => out[i][f] = c
                                        /\ c = None => out[i][f] = v

\* A call has returned a NOSE whose x is blended, whose conf is the
\* previous one because the current one is missing, whose y is the current
\* one because the previous one is missing, and a LEFT_HEEL passed through.
C23_Witness ==
    /\ fn_result # None
    /\ fn_args.previous # <<>>
    /\ fn_args.current[1].x = <<1, 2>> /\ fn_args.previous[1].x = <<0, 1>>
    /\ fn_result[1][1].x = <<1, 5>>
    /\ fn_args.current[1].conf = None /\ fn_result[1][1].conf = <<1, 2>>
    /\ fn_args.previous[1].y = None /\ fn_result[1][1].y = <<1, 4>>
    /\ fn_result[1][2] = fn_args.current[2]

\* --------------------------------------------------------------- predictor

\* C24: a predicted record emitted for hold count h has exactly the
\* landmarks of the track's last smoothed set, in order, with the same
\* names and coordinates; each confidence is the stored confidence times
\* decay^h and an absent one stays absent; the stored set itself is left
\* as it was, so the decay does not compound over earlier predictions.
C24_PredictedFromLastSmoothed ==
    [][pc = "build" =>
        \A i \in 1..Len(primary_track_ids) :
            LET t == primary_track_ids[i]
                out == frame_tracks'[i]
                stored == tracks[t].last_smoothed
                h == tracks'[t].hold_frames
            IN  out.is_predicted =>
                  /\ h \in 1..MaxHoldFrames
                  /\ tracks'[t].last_smoothed = stored
                  /\ tracks'[t].last_landmarks = stored
                  /\ Len(out.landmarks) = Len(stored)
                  /\ \A k \in 1..Len(stored) :
                        /\ out.landmarks[k].name = stored[k].name
                        /\ out.landmarks[k].x = stored[k].x
                        /\ out.landmarks[k].y = stored[k].y
                        /\ out.landmarks[k].z = stored[k].z
                        /\ out.landmarks[k].conf =
                              (IF stored[k].conf = None THEN None
                               ELSE RMul(stored[k].conf, RPow(CONF_DECAY, h)))]_vars

\* Two tracks were predicted for the second frame in a row: one whose
\* landmarks have no confidence, one whose stored confidence 0.9 is
\* emitted as 0.9 * 0.95^2.
C24_Witness ==
    /\ pc = "update"
    /\ \E i, j \in 1..Len(frame_tracks) :
          LET t == frame_tracks[i].track_id
              u == frame_tracks[j].track_id
          IN  /\ frame_tracks[i].is_predicted /\ frame_tracks[j].is_predicted
              /\ tracks[t].hold_frames = 2 /\ tracks[u].hold_frames = 2
              /\ tracks[t].last_smoothed[1].conf = None
              /\ frame_tracks[i].landmarks[1].conf = None
              /\ tracks[u].last_smoothed[1].conf = <<9, 10>>
              /\ frame_tracks[j].landmarks[1].conf = <<3249, 4000>>

\* ---------------------------------------------------------------- override

\* C25: the override path never creates tracks.  Between update_tracks and
\* build_primary_frame the set of track ids, the next-id counter and the
\* primary list do not change; a call of override_detection with an unknown
\* id changes nothing at all; a call with a known id, and an iteration of
\* _refine_primary_tracks for a primary id, change at most that track's
\* record.
C25_OverrideNeverCreatesTracks ==
    [][pc = "refine" =>
        LET direct == fn_args' # fn_args
            track_id == IF direct THEN fn_args'.track_id ELSE primary_track_ids[refine_pos]
        IN  /\ DOMAIN tracks' = DOMAIN tracks
            /\ next_id' = next_id
            /\ primary_track_ids' = primary_track_ids
            /\ \A t \in DOMAIN tracks : t # track_id => tracks'[t] = tracks[t]
            /\ (direct /\ track_id \notin DOMAIN tracks) =>
                   (tracks' = tracks /\ UNCHANGED EngineVars)]_vars

\* override_detection was called with an id that is not in the table and
\* with the id of a track, which now holds the detection passed in; the
\* table has a second track.
C25_Witness ==
    /\ fn_args # None
    /\ fn_args.track_ids \ DOMAIN tracks # {}
    /\ Cardinality(DOMAIN tracks) = 2
    /\ \E t \in fn_args.track_ids \cap DOMAIN tracks :
          /\ tracks[t].current_detection # None
          /\ tracks[t].current_detection[1].source = "crop"

\* C26: a crop re-query result with zero mapped landmarks is ignored.  An
\* iteration of _refine_primary_tracks after which the track holds such a
\* result as its detection has invoked override_detection for it; the
\* claim is that no iteration does: the table and the set of tracks
\* overridden this frame stay as update_tracks left them.
C26_EmptyOverrideIgnored ==
    [][pc = "refine" =>
        LET t == primary_track_ids[refine_pos]
            after == tracks'[t].current_detection
        IN  (after # None /\ after[1].source = "crop" /\ after[1].landmarks = <<>>) =>
               (tracks' = tracks /\ call'.overridden = call.overridden)]_vars

\* ------------------------------------------------------------ frame output

\* C27: build_primary_frame returns one record per id of the primary list,
\* in the order of the list, each with that track id, the frame index and
\* the timestamp of the frame; the record's bounding box is absent exactly
\* when the track has no detection this frame, and is the detection's box
\* otherwise.
C27_OneRecordPerPrimary ==
    [][pc = "build" =>
        /\ Len(frame_tracks') = Len(primary_track_ids)
        /\ \A i \in 1..Len(primary_track_ids) :
              LET t == primary_track_ids[i]
                  out == frame_tracks'[i]
              IN  /\ out.track_id = t
                  /\ out.frame_index = frame_index
                  /\ out.timestamp_ms = (frame_index * 1000) \div 30
                  /\ out.bbox = None <=> tracks[t].current_detection = None
                  /\ tracks[t].current_detection # None =>
                        out.bbox = Some(tracks[t].current_detection[1].bbox)]_vars

\* The third frame (66 ms) was emitted for two primary tracks: the first
\* without a detection and without a box, the second with both.
C27_Witness ==
    /\ pc = "update"
    /\ frame_index = 3
    /\ Len(frame_tracks) = 2
    /\ Len(primary_track_ids) = 2
    /\ \A i \in 1..2 : /\ frame_tracks[i].track_id = primary_track_ids[i]
                        /\ frame_tracks[i].frame_index = 2
                        /\ frame_tracks[i].timestamp_ms = 66
    /\ frame_tracks[1].bbox = None
    /\ tracks[primary_track_ids[1]].current_detection = None
    /\ frame_tracks[2].bbox # None
    /\ tracks[primary_track_ids[2]].current_detection # None

\* The control transfers of the frame loop.
StepOrder ==
    {<<"update", "refine">>, <<"update", "build">>, <<"update", "done">>,
     <<"refine", "refine">>, <<"refine", "build">>, <<"build", "update">>}

InUnit(v) == RLe(<<0, 1>>, v) /\ RLe(v, <<1, 1>>)

\* C29: for every landmark list with at least one x and one y the box of
\* the detection has x_min, y_min, x_max and y_max in [0, 1], wherever the
\* landmarks lie, and its height is y_max - y_min and not negative.
C29_BboxClamped ==
    (fn_result # None /\ Xs(fn_args.landmarks) # <<>> /\ Ys(fn_args.landmarks) # <<>>) =>
        LET bbox == fn_result[1].bbox
        IN  /\ InUnit(bbox.x_min) /\ InUnit(bbox.y_min)
            /\ InUnit(bbox.x_max) /\ InUnit(bbox.y_max)
            /\ bbox.height = RSub(bbox.y_max, bbox.y_min)
            /\ RLe(<<0, 1>>, bbox.height)

\* C30: every detection dict has above_threshold true exactly when its
\* box height times the frame height is at least MIN_BBOX_HEIGHT_PX (120)
\* or its box height is at least MIN_BBOX_HEIGHT_RATIO (0.12); too_small is
\* the negation of above_threshold, center the midpoint of the box and
\* scale the height of the box.
C30_DetectionFields ==
    fn_result # None =>
        LET d == fn_result[1]
            bbox == d.bbox
        IN  /\ d.above_threshold <=>
                  \/ RLe(<<120, 1>>, RMul(bbox.height, <<fn_args.height, 1>>))
                  \/ RLe(<<12, 100>>, bbox.height)
            /\ d.bbox.above_threshold = d.above_threshold
            /\ d.too_small = ~d.above_threshold
            /\ RMul(d.center[1], <<2, 1>>) = RAdd(bbox.x_min, bbox.x_max)
            /\ RMul(d.center[2], <<2, 1>>) = RAdd(bbox.y_min, bbox.y_max)
            /\ d.scale = bbox.height

\* A detection of a 1080-pixel frame is 0.115 high: 124.2 pixels reach the
\* pixel threshold, the ratio threshold is not reached, and the detection
\* is above the threshold, with its center at (0.25, 0.3075).
C30_Witness ==
    /\ fn_result # None
    /\ fn_args.height = FrameHeight
    /\ fn_result[1].bbox.height = <<23, 200>>
    /\ fn_result[1].above_threshold /\ ~fn_result[1].too_small
    /\ fn_result[1].center = <<<<1, 4>>, <<123, 400>>>>
    /\ fn_result[1].scale = <<23, 200>>

\* The all-zero box, field by field.
IsZeroBox(bbox) ==
    /\ bbox.x_min = <<0, 1>> /\ bbox.y_min = <<0, 1>>
    /\ bbox.x_max = <<0, 1>> /\ bbox.y_max = <<0, 1>>
    /\ bbox.height = <<0, 1>> /\ bbox.height_px = <<0, 1>> /\ bbox.height_ratio = <<0, 1>>

\* No landmark of the list has both an x and a y.
NoneHasBoth(landmarks) ==
    \A i \in 1..Len(landmarks) : landmarks[i].x = None \/ landmarks[i].y = None

C33_CurrentDetectionIsOfThisFrame ==
    [][(pc = "update" /\ pc' # "done") =>
        \A t \in DOMAIN tracks' :
            LET applied == {k \in 1..Len(call'.detections) :
                               \/ \E n \in 1..Len(call'.accepted) : call'.accepted[n] = <<t, k>>
                               \/ \E n \in 1..Len(call'.created) : call'.created[n] = <<t, k>>}
                current == tracks'[t].current_detection
            IN  IF applied = {} THEN current = None
                ELSE /\ Cardinality(applied) = 1
                     /\ \A k \in applied : current = Some(call'.detections[k])
                     /\ tracks'[t].last_seen_frame = frame_index]_vars

\* update_tracks has returned for the second frame: track 1, which held a
\* detection in the first frame, has none, and track 2 holds the one
\* detection of this frame.
C33_Witness ==
    /\ AfterUpdate
    /\ frame_index = 1
    /\ DOMAIN tracks = {1, 2}
    /\ 1 \in DOMAIN call.before
    /\ call.before[1].current_detection # None
    /\ tracks[1].current_detection = None
    /\ Len(call.detections) = 1
    /\ tracks[2].current_detection = Some(call.detections[1])

\* A landmark of the set lacks its z or its confidence.
LacksScalar(landmarks) ==
    \E k \in 1..Len(landmarks) : landmarks[k].z = None \/ landmarks[k].conf = None

WithAboveWindow(trs) == {t \in DOMAIN trs : trs[t].height_history_above # <<>>}

\* C35: when update_tracks returns, the primary list has min(N, number of
\* tracks with a non-empty above-threshold window) entries, all different;
\* so it is empty as long as no track has such a window and not empty once
\* one has.
C35_PrimarySetSize ==
    [][(pc = "update" /\ pc' # "done") =>
        LET n == Cardinality(WithAboveWindow(tracks'))
        IN  /\ Len(primary_track_ids') = IMin(PrimaryTrackCount, n)
            /\ Cardinality({primary_track_ids'[i] : i \in 1..Len(primary_track_ids')})
                  = Len(primary_track_ids')
            /\ WithAboveWindow(tracks) \subseteq WithAboveWindow(tracks')]_vars

\* update_tracks has returned with three tracks that have an
\* above-threshold window, two of them primary, and a track that has none.
C35_Witness ==
    /\ AfterUpdate
    /\ Cardinality(WithAboveWindow(tracks)) = 3
    /\ Len(primary_track_ids) = PrimaryTrackCount
    /\ \E t \in DOMAIN tracks : tracks[t].height_history_above = <<>>

\* ------------------------------------------------------- samples per frame

\* Window w2 is window w1 after exactly one append.
OneSample(w1, w2) ==
    /\ w2 # <<>>
    /\ w2 = DequeAppend(w1, w2[Len(w2)], HeightWindow)

\* C36: a frame adds at most one sample per track to the height windows.
\* After a frame in which a track held a detection, its all-detections
\* window is the window from before the frame with exactly one entry
\* appended, and its above-threshold window is the one from before the
\* frame or that with one entry appended, also when a crop override was
\* applied to the track in the frame.
C36_OneSamplePerFrame ==
    AfterFrame =>
        \A t \in DOMAIN tracks :
            LET before == IF t \in DOMAIN call.before THEN call.before[t]
                          ELSE NewTrackState(t)
            IN  tracks[t].current_detection # None =>
                  /\ OneSample(before.height_history, tracks[t].height_history)
                  /\ \/ tracks[t].height_history_above = before.height_history_above
                     \/ OneSample(before.height_history_above, tracks[t].height_history_above)

\* ------------------------------------------------------ lifecycle counters

\* The fields of a track record that only output emission writes.
Lifecycle(track) ==
    <<track.detected_frames, track.predicted_frames, track.hold_frames,
      track.current_dropout, track.longest_dropout, track.last_smoothed,
      track.last_landmarks>>

\* C37: the lifecycle counters and the smoothed landmarks of a track change
\* only when build_primary_frame emits a record for it as a primary track.
\* update_tracks and the crop overrides leave them as they are on every
\* track (all 0 and no landmarks on a track just created), and
\* build_primary_frame leaves them as they are on every track outside the
\* primary list; so a track that was never primary, such as one that
\* never had an above-threshold sample, has all of them at 0.
C37_CountersOnlyForPrimaries ==
    [][/\ pc \in {"update", "refine"} =>
             \A t \in DOMAIN tracks' :
                 Lifecycle(tracks'[t]) =
                    Lifecycle(IF t \in DOMAIN tracks THEN tracks[t] ELSE NewTrackState(t))
       /\ pc = "build" =>
             \A t \in DOMAIN tracks :
                 (\A i \in 1..Len(primary_track_ids) : primary_track_ids[i] # t) =>
                     Lifecycle(tracks'[t]) = Lifecycle(tracks[t])
       /\ \A t \in DOMAIN tracks' :
             tracks'[t].height_history_above = <<>> =>
                 Lifecycle(tracks'[t]) = Lifecycle(NewTrackState(t))]_vars

\* After the second frame a track that never was primary has missed a
\* frame and has all its lifecycle counters at 0, while a primary track
\* has a detected frame and a predicted one.
C37_Witness ==
    /\ AfterFrame
    /\ frame_index = 2
    /\ \E t, u \in DOMAIN tracks :
          /\ tracks[t].height_history_above = <<>>
          /\ tracks[t].missed_frames = 1
          /\ Lifecycle(tracks[t]) = Lifecycle(NewTrackState(t))
          /\ tracks[u].detected_frames = 1
          /\ tracks[u].predicted_frames = 1

\* ------------------------------------------------- stored landmark sets

\* C38: only an Active frame writes a track's stored landmark sets. When
\* build_primary_frame emits a record for a primary track without an
\* above-threshold detection (Held, Lost or TooSmall), the track's
\* last_landmarks and last_smoothed are left as they were; on an Active
\* frame both become the set emitted, which is the detection smoothed
\* against the last_smoothed stored before the frame, that is the set of
\* the last Active frame and not the decayed set a held frame emitted.
C38_StoredSetsWrittenOnlyWhenActive ==
    [][pc = "build" /\ pc' = "update" =>
        \A i \in 1..Len(primary_track_ids) :
            LET t == primary_track_ids[i]
            IN  /\ ~IsActive(t) =>
                      /\ tracks'[t].last_landmarks = tracks[t].last_landmarks
                      /\ tracks'[t].last_smoothed = tracks[t].last_smoothed
                /\ IsActive(t) =>
                      /\ tracks'[t].last_smoothed = frame_tracks'[i].landmarks
                      /\ tracks'[t].last_landmarks = frame_tracks'[i].landmarks
                      /\ SmoothedFrom(tracks'[t].last_smoothed,
                                      tracks[t].current_detection[1].landmarks,
                                      tracks[t].last_smoothed)
                /\ tracks[t].last_smoothed = tracks[t].last_landmarks]_vars

\* A track detected with confidence 0.9, held for one frame (emitted with
\* 0.855) and detected again with confidence 0: the smoothed confidence is
\* 0.6 * 0.9 = 0.54, not 0.6 * 0.855.
C38_Witness ==
    /\ AfterFrame
    /\ \E t \in DOMAIN tracks :
          /\ tracks[t].detected_frames = 2
          /\ tracks[t].predicted_frames = 1
          /\ tracks[t].hold_frames = 0
          /\ tracks[t].last_smoothed # <<>>
          /\ tracks[t].last_smoothed[1].conf = <<27, 50>>

\* ------------------------------------------- missed frames and last seen

\* C39: after every update_tracks call and every override_detection call
\* (by the crop refinement or by another caller), for every track the
\* missed-frame counter is 0 exactly when the track holds a current
\* detection; last_seen_frame is at most the current frame index, it is the
\* current frame index on a track a detection was applied to in the call
\* and is left as it was on every other track, and the frames missed since
\* then separate it from the current frame.
C39_MissedAndLastSeen ==
    [][(pc = "update" \/ pc = "refine") /\ (pc' = "refine" \/ pc' = "build") =>
        \A t \in DOMAIN tracks' :
            LET before == IF t \in DOMAIN tracks THEN tracks[t] ELSE NewTrackState(t)
                applied == IF pc = "update" THEN tracks'[t].current_detection # None
                           ELSE tracks'[t] # before
            IN  /\ tracks'[t].missed_frames = 0 <=> tracks'[t].current_detection # None
                /\ tracks'[t].last_seen_frame <= frame_index
                /\ tracks'[t].last_seen_frame + tracks'[t].missed_frames = frame_index
                /\ applied => tracks'[t].last_seen_frame = frame_index
                /\ applied => tracks'[t].current_detection # None
                /\ ~applied => tracks'[t].last_seen_frame = before.last_seen_frame]_vars

\* On the second frame nothing is detected, so that every track is marked
\* missed; a caller then overrides one track, which holds a detection
\* again and was last seen on this frame, while the other stays without
\* one, one frame missed, last seen on the first frame.
C39_Witness ==
    /\ pc = "refine"
    /\ frame_index = 1
    /\ call.detections = <<>>
    /\ fn_args # None
    /\ fn_args.calls = 1
    /\ \E t, u \in DOMAIN tracks :
          /\ t = fn_args.track_id
          /\ tracks[t].current_detection # None
          /\ tracks[t].missed_frames = 0
          /\ tracks[t].last_seen_frame = 1
          /\ tracks[u].current_detection = None
          /\ tracks[u].missed_frames = 1
          /\ tracks[u].last_seen_frame = 0

====
